---- MODULE Spec2Model ----
(***************************************************************************)
(* Expression engine of the workflow editor (utils/expressionUtils):       *)
(* flattenObjectToSchema, buildEvaluationContext, validateSnippet,         *)
(* evaluateExpression, and the block highlighter of ExpressionEditor;       *)
(* then the editing surface itself (App and ExpressionEditor): insertion   *)
(* of paths from the sidebar and the autocomplete menu.                    *)
(*                                                                         *)
(* Text.  A JavaScript string is modelled as a sequence of chunks; the     *)
(* string it stands for is the concatenation of its chunks.  The chunks    *)
(* "{", "}", "(", ")", ".", ",", "=", "+", ">", "<", " " and "\n" are one  *)
(* character each, "||", "&gt;" and "&lt;" are the operator and the two    *)
(* entities, and every other chunk is a word (an identifier, a keyword or  *)
(* one decimal digit).  Braces, line terminators and white space occur     *)
(* only as chunks of their own, so the regular expression, trim and the    *)
(* entity replacement act on chunks exactly as they act on characters.     *)
(***************************************************************************)
EXTENDS Integers, Sequences, FiniteSets, TLC

VARIABLES
    nodes,      \* the WorkflowNode[] handed to the engine (MOCK_NODES): <<[name, data]>>
    host,       \* the global object of the JavaScript realm: <<[k, v]>>
    doc,        \* the text under the caller's hand (App's `expression`)
    nsegs,      \* number of segments typed into doc
    last,       \* the last engine call: its inputs, its result, the store before it
    fresh,      \* the store as it was constructed (what a first call sees)
    \* App and ExpressionEditor
    insertPath,         \* App: the path a sidebar click asks to insert, or null
    effectDeps,         \* the [insertPath] the insertion effect last ran with
    selectionStart,     \* the textarea's selection, 0-based character offsets
    selectionEnd,
    showMenu,           \* the autocomplete state of ExpressionEditor
    query,
    selectedIndex,
    triggerIndex,
    filteredOptions,
    frames,             \* the callbacks handed to requestAnimationFrame, oldest first
    typed,              \* number of input changes so far
    clicked,            \* the paths clicked in the sidebar, oldest first
    inserted            \* the paths the insertion effect has inserted, oldest first

engvars == <<nodes, host, doc, nsegs, last, fresh>>

edvars == <<insertPath, effectDeps, selectionStart, selectionEnd, showMenu, query,
            selectedIndex, triggerIndex, filteredOptions, frames, typed, clicked,
            inserted>>

vars == <<engvars, edvars>>

-----------------------------------------------------------------------------
(* Bounds *)

MaxSegs == 2        \* segments of text typed into a document
MaxKeys == 2        \* properties of an object handed to flatten
MaxNodes == 2       \* nodes of a list handed to the catalog and the context builder

-----------------------------------------------------------------------------
(* Text helpers *)

\* F of the value v, v worked out once
Bind(v, F(_)) == F(v)

\* the same, v worked out before F is entered
Force(v, F(_)) == CHOOSE y \in {F(x) : x \in {v}} : TRUE

OPEN == <<"{", "{">>
CLOSE == <<"}", "}">>
LineTerminators == {"\n"}
WhiteSpace == {" ", "\n"}
Digits == <<"0", "1", "2", "3", "4", "5", "6", "7", "8", "9">>
DigitSet == {Digits[i] : i \in 1..Len(Digits)}
Punct == {"{", "}", "(", ")", ".", ",", "=", "+", ">", "<", "||", "&gt;", "&lt;"}

\* s.startsWith(pat, p-1), 1-based
StartsAt(s, p, pat) ==
    /\ p >= 1
    /\ p + Len(pat) - 1 <= Len(s)
    /\ SubSeq(s, p, p + Len(pat) - 1) = pat

EndsWith(s, pat) == StartsAt(s, Len(s) - Len(pat) + 1, pat)

Min(S) == CHOOSE x \in S : \A y \in S : x <= y
Max(S) == CHOOSE x \in S : \A y \in S : x >= y

\* the positions of s that hold something else than white space
Inked(s) == {i \in 1..Len(s) : s[i] \notin WhiteSpace}

TrimStart(s) == IF Inked(s) = {} THEN <<>> ELSE SubSeq(s, Min(Inked(s)), Len(s))

TrimEnd(s) == IF Inked(s) = {} THEN <<>> ELSE SubSeq(s, 1, Max(Inked(s)))

\* String.prototype.trim
Trim(s) == TrimEnd(TrimStart(s))

\* .replace(/&gt;/g, '>').replace(/&lt;/g, '<')
Unescape(s) ==
    [i \in 1..Len(s) |-> IF s[i] = "&gt;" THEN ">" ELSE IF s[i] = "&lt;" THEN "<" ELSE s[i]]

\* const cleanCode = code.trim().replace(/&gt;/g, '>').replace(/&lt;/g, '<');
CleanCode(code) == Unescape(Trim(code))

\* the texts ss[lo], ..., ss[hi] one after the other
RECURSIVE ConcatRange(_, _, _)
ConcatRange(ss, lo, hi) ==
    IF lo > hi THEN <<>>
    ELSE IF lo = hi THEN ss[lo]
    ELSE ConcatRange(ss, lo, (lo + hi) \div 2) \o ConcatRange(ss, (lo + hi) \div 2 + 1, hi)

Concat(ss) == ConcatRange(ss, 1, Len(ss))

-----------------------------------------------------------------------------
(* EXPRESSION_REGEX = /\{\{(.*?)\}\}/g *)

NoMatch == [s |-> 0, e |-> 0]

\* the lazy (.*?) followed by }}: the first position at or after q where }}
\* starts with no line terminator from q up to it, 0 if there is none
ClosesFrom(s, q) ==
    {c \in q..Len(s) : /\ StartsAt(s, c, CLOSE)
                       /\ \A k \in q..(c - 1) : s[k] \notin LineTerminators}

LazyClose(s, q) == IF ClosesFrom(s, q) = {} THEN 0 ELSE Min(ClosesFrom(s, q))

\* the positions at or after p where a match starts
MatchStarts(s, p) ==
    {o \in p..Len(s) : StartsAt(s, o, OPEN) /\ LazyClose(s, o + 2) # 0}

\* EXPRESSION_REGEX.exec(s) with lastIndex = p - 1: the first match starting
\* at p or later, [s, e] the first and last position of the match
RegexExec(s, p) ==
    IF MatchStarts(s, p) = {} THEN NoMatch
    ELSE Bind(Min(MatchStarts(s, p)), LAMBDA o : [s |-> o, e |-> LazyClose(s, o + 2) + 1])

\* all matches of the global regex, left to right
RECURSIVE RegexMatches(_, _)
RegexMatches(s, p) ==
    IF MatchStarts(s, p) = {} THEN <<>>
    ELSE <<RegexExec(s, p)>> \o RegexMatches(s, RegexExec(s, p).e + 1)

\* capture group 1 of a match
Group1(s, m) == SubSeq(s, m.s + 2, m.e - 2)

-----------------------------------------------------------------------------
(* JavaScript values.  Data (node.data) is a tree of these; an object is  *)
(* its own enumerable properties in insertion order.  While a snippet runs *)
(* an object or array is held by reference (Ref) to its place in the      *)
(* store, so that a write through the reference is a write to the data.   *)

Undef == [t |-> "undefined"]
Null == [t |-> "null"]
NaN == [t |-> "nan"]
Num(n) == [t |-> "number", n |-> n]
Str(s) == [t |-> "string", s |-> s]
Bool(b) == [t |-> "boolean", b |-> b]
Obj(props) == [t |-> "object", props |-> props]
Arr(items) == [t |-> "array", items |-> items]
Fn(name) == [t |-> "function", name |-> name]
Ref(sp, i, path) == [t |-> "ref", sp |-> sp, i |-> i, path |-> path]

P(k, v) == [k |-> k, v |-> v]

\* position of key k among the entries, 0 when absent
IndexOfKey(entries, k, i) ==
    IF \A j \in i..Len(entries) : entries[j].k # k THEN 0
    ELSE Min({j \in i..Len(entries) : entries[j].k = k})

HasKey(entries, k) == IndexOfKey(entries, k, 1) # 0

\* obj[k]
GetEntry(entries, k) ==
    IF HasKey(entries, k) THEN entries[IndexOfKey(entries, k, 1)].v ELSE Undef

\* obj[k] = v: an existing key keeps its place, a new key goes last
PutEntry(entries, k, v) ==
    IF HasKey(entries, k)
    THEN [entries EXCEPT ![IndexOfKey(entries, k, 1)] = P(k, v)]
    ELSE Append(entries, P(k, v))

\* Object.keys(obj)
Keys(entries) == [i \in 1..Len(entries) |-> entries[i].k]

\* typeof
TypeOf(v) ==
    CASE v.t = "undefined" -> "undefined"
      [] v.t \in {"null", "object", "array", "ref"} -> "object"
      [] v.t \in {"number", "nan"} -> "number"
      [] v.t = "string" -> "string"
      [] v.t = "boolean" -> "boolean"
      [] v.t = "function" -> "function"

RECURSIVE NumToText(_)
NumToText(n) ==
    IF n < 10 THEN <<Digits[n + 1]>>
    ELSE NumToText(n \div 10) \o <<Digits[(n % 10) + 1]>>

\* number of characters of a text: the chunks' lengths added up
RECURSIVE TextLength(_)
TextLength(s) == IF s = <<>> THEN 0 ELSE Len(Head(s)) + TextLength(Tail(s))

\* the source text of a helper, as String(fn) gives it
FnSource(name) == <<"[source of ", name, "]">>

\* String(v) of a data tree
RECURSIVE ToText(_)
RECURSIVE JoinItems(_, _)
ToText(v) ==
    CASE v.t = "undefined" -> <<"undefined">>
      [] v.t = "null" -> <<"null">>
      [] v.t = "nan" -> <<"NaN">>
      [] v.t = "number" -> NumToText(v.n)
      [] v.t = "boolean" -> IF v.b THEN <<"true">> ELSE <<"false">>
      [] v.t = "string" -> v.s
      [] v.t = "function" -> FnSource(v.name)
      [] v.t = "object" -> <<"[object Object]">>
      [] v.t = "array" -> JoinItems(v.items, <<",">>)

\* Array.prototype.join: null and undefined items give empty text
JoinItems(items, sep) ==
    IF items = <<>> THEN <<>>
    ELSE LET h == IF Head(items).t \in {"undefined", "null"} THEN <<>> ELSE ToText(Head(items))
         IN IF Len(items) = 1 THEN h ELSE h \o sep \o JoinItems(Tail(items), sep)

Quote(s) == <<"\"">> \o s \o <<"\"">>

\* JSON.stringify(v) without indentation; HasJSON(v) is false where
\* JSON.stringify gives undefined
HasJSON(v) == v.t \notin {"undefined", "function"}

RECURSIVE JSONText(_)
RECURSIVE JSONItems(_)
RECURSIVE JSONProps(_, _)
JSONText(v) ==
    CASE v.t = "null" -> <<"null">>
      [] v.t = "nan" -> <<"null">>
      [] v.t = "number" -> NumToText(v.n)
      [] v.t = "boolean" -> IF v.b THEN <<"true">> ELSE <<"false">>
      [] v.t = "string" -> Quote(v.s)
      [] v.t = "array" -> <<"[">> \o JSONItems(v.items) \o <<"]">>
      [] v.t = "object" -> <<"{">> \o JSONProps(v.props, TRUE) \o <<"}">>

JSONItems(items) ==
    IF items = <<>> THEN <<>>
    ELSE LET h == IF HasJSON(Head(items)) THEN JSONText(Head(items)) ELSE <<"null">>
         IN IF Len(items) = 1 THEN h ELSE h \o <<",">> \o JSONItems(Tail(items))

\* properties without a JSON form are left out
JSONProps(props, first) ==
    IF props = <<>> THEN <<>>
    ELSE IF ~HasJSON(Head(props).v) THEN JSONProps(Tail(props), first)
    ELSE (IF first THEN <<>> ELSE <<",">>)
         \o Quote(Head(props).k) \o <<":">> \o JSONText(Head(props).v)
         \o JSONProps(Tail(props), FALSE)

-----------------------------------------------------------------------------
(* FORMATTERS and buildEvaluationContext *)

FORMATTER_NAMES ==
    <<"toUpper", "toLower", "truncate", "formatDate", "now",
      "formatCurrency", "round", "json", "join", "length">>

\* what a variable holds for a piece of data: objects and arrays by reference
Held(sp, i, data) == IF data.t \in {"object", "array"} THEN Ref(sp, i, <<>>) ELSE data

\* nodes.forEach(node => { context[node.name] = node.data; });
BindNodes(ns) == [i \in 1..Len(ns) |-> P(ns[i].name, Held("node", i, ns[i].data))]

\* Object.assign(context, FORMATTERS);
AssignFormatters ==
    [i \in 1..Len(FORMATTER_NAMES) |-> P(<<FORMATTER_NAMES[i]>>, Fn(FORMATTER_NAMES[i]))]

\* the positions in a sequence of assignments where a key is assigned first
FirstAssigned(as) == {i \in 1..Len(as) : \A j \in 1..(i - 1) : as[j].k # as[i].k}

\* the n-th smallest element of a set of numbers
Nth(S, n) == CHOOSE i \in S : Cardinality({j \in S : j < i}) = n - 1

\* the object assignments leave: a key has the place of its first assignment
\* and the value of its last
Assigned(as) ==
    [n \in 1..Cardinality(FirstAssigned(as)) |->
        P(as[Nth(FirstAssigned(as), n)].k,
          as[Max({j \in 1..Len(as) : as[j].k = as[Nth(FirstAssigned(as), n)].k})].v)]

\* Object.assign(context, FORMATTERS) run before nodes.forEach
FormattersFirst(ns) == Assigned(AssignFormatters \o BindNodes(ns))

buildEvaluationContext(ns) == Assigned(BindNodes(ns) \o AssignFormatters)

-----------------------------------------------------------------------------
(* The store a snippet runs against, and access to it through references *)

\* the tree a path leads to from a root tree
RECURSIVE Walk(_, _)
Walk(tree, path) ==
    IF path = <<>> THEN tree ELSE Walk(GetEntry(tree.props, Head(path)), Tail(path))

Root(st, r) == IF r.sp = "node" THEN st.nodes[r.i].data ELSE st.host[r.i].v

Deref(st, r) == Walk(Root(st, r), r.path)

\* the tree of a value: what a reference points at, or the value itself
TreeOf(st, v) == IF v.t = "ref" THEN Deref(st, v) ELSE v

\* tree with the property key of the object at path set to v
RECURSIVE PutAt(_, _, _, _)
PutAt(tree, path, key, v) ==
    IF path = <<>> THEN [tree EXCEPT !.props = PutEntry(@, key, v)]
    ELSE [tree EXCEPT !.props =
            PutEntry(@, Head(path), PutAt(GetEntry(tree.props, Head(path)), Tail(path), key, v))]

\* r[key] = v through a reference r to an object
WriteRef(st, r, key, v) ==
    IF r.sp = "node"
    THEN [st EXCEPT !.nodes[r.i].data = PutAt(@, r.path, key, v)]
    ELSE [st EXCEPT !.host[r.i].v = PutAt(@, r.path, key, v)]

-----------------------------------------------------------------------------
(* new Function(...argNames, `return (${cleanCode});`): the parser.  The   *)
(* expressions are: digits, identifiers, ( ), member access, calls,        *)
(* typeof, unary and binary +, < and >, ||, assignment and the comma.      *)

\* the tokens of a text: white space goes, except that "<ws>" is left where it
\* separates two digits (two numbers, not one)
AfterDigitAndSpace(code, i) ==
    /\ i > 1
    /\ code[i - 1] \in WhiteSpace
    /\ Inked(SubSeq(code, 1, i - 1)) # {}
    /\ code[Max(Inked(SubSeq(code, 1, i - 1)))] \in DigitSet

Lexeme(code, i) ==
    IF code[i] \in WhiteSpace THEN <<>>
    ELSE IF code[i] \in DigitSet /\ AfterDigitAndSpace(code, i) THEN <<"<ws>", code[i]>>
    ELSE <<code[i]>>

Tokens(code) == Concat([i \in 1..Len(code) |-> Lexeme(code, i)])

Tok(ts, i) == IF i <= Len(ts) THEN ts[i] ELSE "<eof>"

Keywords == {"typeof"}

IsWord(c) == c \notin Punct \cup WhiteSpace \cup {"<eof>", "<ws>"}
IsIdent(c) == IsWord(c) /\ c \notin DigitSet \cup Keywords

DigitVal(c) == CHOOSE n \in 0..9 : Digits[n + 1] = c

RECURSIVE DigitsVal(_)
DigitsVal(s) ==
    IF s = <<>> THEN 0
    ELSE 10 * DigitsVal(SubSeq(s, 1, Len(s) - 1)) + DigitVal(s[Len(s)])

\* the last position of the run of digits that starts at i
RECURSIVE DigitRunEnd(_, _)
DigitRunEnd(ts, i) == IF Tok(ts, i + 1) \in DigitSet THEN DigitRunEnd(ts, i + 1) ELSE i

ParseFail == [ok |-> FALSE]
Parsed(ast, i) == [ok |-> TRUE, ast |-> ast, i |-> i]

\* the binary operators by precedence, 0 for what is not one; = associates
\* to the right, the others to the left
Prec(c) ==
    CASE c = "," -> 1
      [] c = "=" -> 2
      [] c = "||" -> 3
      [] c \in {"<", ">"} -> 4
      [] c = "+" -> 5
      [] OTHER -> 0

\* the node of the binary operator o, once its right operand is parsed
Binary(o, l, r) ==
    IF ~r.ok THEN ParseFail
    ELSE CASE o = "," -> Parsed([op |-> "seq", l |-> l.ast, r |-> r.ast], r.i)
           [] o = "=" -> Parsed([op |-> "assign", target |-> l.ast, e |-> r.ast], r.i)
           [] o = "||" -> Parsed([op |-> "or", l |-> l.ast, r |-> r.ast], r.i)
           [] o \in {"<", ">"} ->
                Parsed([op |-> "rel", o |-> o, l |-> l.ast, r |-> r.ast], r.i)
           [] o = "+" -> Parsed([op |-> "add", l |-> l.ast, r |-> r.ast], r.i)

Unary(op, r) ==
    IF r.ok THEN Parsed([op |-> op, e |-> r.ast], r.i) ELSE ParseFail

Call(l, a) ==
    IF a.ok THEN Parsed([op |-> "call", fn |-> l.ast, args |-> a.ast], a.i)
    ELSE ParseFail

Parenthesized(ts, e) ==
    IF e.ok /\ Tok(ts, e.i) = ")" THEN Parsed(e.ast, e.i + 1) ELSE ParseFail

\* the whole of ts is one expression
Complete(ts, e) ==
    IF e.ok /\ e.i = Len(ts) + 1 THEN e ELSE ParseFail

RECURSIVE ParseBinary(_, _, _)
RECURSIVE ParseBinaryRest(_, _, _)
RECURSIVE ParseUnary(_, _)
RECURSIVE ParsePostfix(_, _)
RECURSIVE ParsePostfixRest(_, _)
RECURSIVE ParseArgs(_, _, _)
RECURSIVE ParseArgsRest(_, _, _)
RECURSIVE ParsePrimary(_, _)

\* an expression whose binary operators, outside parentheses, all have
\* precedence min or more
ParseBinary(ts, i, min) == ParseBinaryRest(ts, ParseUnary(ts, i), min)

\* l is parsed: the operators that follow it.  The target of = is an
\* identifier or a member access.
ParseBinaryRest(ts, l, min) ==
    IF ~l.ok THEN ParseFail
    ELSE IF Prec(Tok(ts, l.i)) = 0 \/ Prec(Tok(ts, l.i)) < min THEN l
    ELSE IF Tok(ts, l.i) = "="
    THEN IF l.ast.op \in {"id", "member"}
         THEN ParseBinaryRest(ts, Binary("=", l, ParseBinary(ts, l.i + 1, Prec("="))), min)
         ELSE ParseFail
    ELSE ParseBinaryRest(ts, Binary(Tok(ts, l.i), l,
                                    ParseBinary(ts, l.i + 1, Prec(Tok(ts, l.i)) + 1)), min)

\* Expression: AssignmentExpression { , AssignmentExpression }
ParseExpr(ts, i) == ParseBinary(ts, i, Prec(","))

\* AssignmentExpression
ParseAssign(ts, i) == ParseBinary(ts, i, Prec("="))

ParseUnary(ts, i) ==
    IF Tok(ts, i) \in {"typeof", "+"}
    THEN Unary(IF Tok(ts, i) = "+" THEN "pos" ELSE "typeof", ParseUnary(ts, i + 1))
    ELSE ParsePostfix(ts, i)

ParsePostfix(ts, i) == ParsePostfixRest(ts, ParsePrimary(ts, i))

ParsePostfixRest(ts, l) ==
    IF ~l.ok THEN ParseFail
    ELSE IF Tok(ts, l.i) = "."
    THEN IF IsWord(Tok(ts, l.i + 1)) /\ Tok(ts, l.i + 1) \notin DigitSet
         THEN ParsePostfixRest(ts, Parsed([op |-> "member", obj |-> l.ast,
                                           prop |-> Tok(ts, l.i + 1)], l.i + 2))
         ELSE ParseFail
    ELSE IF Tok(ts, l.i) = "("
    THEN IF Tok(ts, l.i + 1) = ")"
         THEN ParsePostfixRest(ts, Parsed([op |-> "call", fn |-> l.ast, args |-> <<>>], l.i + 2))
         ELSE ParsePostfixRest(ts, Call(l, ParseArgs(ts, l.i + 1, <<>>)))
    ELSE l

\* Arguments: AssignmentExpression { , AssignmentExpression } )
ParseArgs(ts, i, acc) == ParseArgsRest(ts, acc, ParseAssign(ts, i))

ParseArgsRest(ts, acc, a) ==
    IF ~a.ok THEN ParseFail
    ELSE IF Tok(ts, a.i) = "," THEN ParseArgs(ts, a.i + 1, Append(acc, a.ast))
    ELSE IF Tok(ts, a.i) = ")" THEN Parsed(Append(acc, a.ast), a.i + 1)
    ELSE ParseFail

ParsePrimary(ts, i) ==
    IF Tok(ts, i) \in DigitSet
    THEN Parsed([op |-> "num", n |-> DigitsVal(SubSeq(ts, i, DigitRunEnd(ts, i)))],
                DigitRunEnd(ts, i) + 1)
    ELSE IF IsIdent(Tok(ts, i)) THEN Parsed([op |-> "id", name |-> Tok(ts, i)], i + 1)
    ELSE IF Tok(ts, i) = "(" THEN Parenthesized(ts, ParseExpr(ts, i + 1))
    ELSE ParseFail

\* the tokens as one expression
ParseTokens(ts) == Complete(ts, ParseExpr(ts, 1))

\* the body `return (${cleanCode});`
ParseBody(cleanCode) ==
    Force(Tokens(<<"(">> \o cleanCode \o <<")">>), LAMBDA ts : ParseTokens(ts))

\* a parameter name the Function constructor accepts
ValidParam(k) == Len(k) = 1 /\ IsIdent(k[1])

-----------------------------------------------------------------------------
(* fn(...argValues): running the parsed body.  The state st of a run is    *)
(* [env, nodes, host]: the parameters, the nodes' data and the globals.    *)

Ret(v, st) == [thrown |-> FALSE, v |-> v, st |-> st]
Throw(msg, st) == [thrown |-> TRUE, msg |-> msg, st |-> st]

ReferenceError(name) == <<name, " is not defined">>
ReadTypeError(v, prop) == <<"Cannot read properties of ", v.t, " (reading '", prop, "')">>
WriteTypeError(v, prop) == <<"Cannot set properties of ", v.t, " (setting '", prop, "')">>
CallTypeError == <<"not a function">>
SyntaxErrorMsg == <<"Unexpected token">>
ParamErrorMsg == <<"Invalid parameter name">>

\* globals that assignment leaves alone
ReadOnlyGlobals == {<<"undefined">>}

Resolvable(st, name) == HasKey(st.env, <<name>>) \/ HasKey(st.host, <<name>>)

\* the value of a resolvable identifier: a parameter first, a global next
Lookup(st, name) ==
    IF HasKey(st.env, <<name>>) THEN GetEntry(st.env, <<name>>)
    ELSE Held("host", IndexOfKey(st.host, <<name>>, 1), GetEntry(st.host, <<name>>))

\* Function.prototype.length of a helper
Arity(name) == IF name = "now" THEN 0 ELSE IF name = "truncate" THEN 2 ELSE 1

\* v[prop] for a value other than undefined and null
GetProp(st, v, prop) ==
    Bind(TreeOf(st, v), LAMBDA tree :
        CASE tree.t = "object" ->
              Bind(GetEntry(tree.props, <<prop>>), LAMBDA child :
                  IF child.t \in {"object", "array"}
                  THEN Ref(v.sp, v.i, Append(v.path, <<prop>>))
                  ELSE child)
          [] tree.t = "array" -> IF prop = "length" THEN Num(Len(tree.items)) ELSE Undef
          [] tree.t = "string" -> IF prop = "length" THEN Num(TextLength(tree.s)) ELSE Undef
          [] tree.t = "function" ->
              IF prop = "length" THEN Num(Arity(tree.name))
              ELSE IF prop = "name" THEN Str(<<tree.name>>)
              ELSE Undef
          [] tree.t \in {"number", "nan", "boolean"} -> Undef)

AllDigits(s) == \A i \in 1..Len(s) : s[i] \in DigitSet

\* ToNumber of a text
TextToNumber(s) == IF AllDigits(s) THEN Num(DigitsVal(s)) ELSE NaN

\* ToPrimitive: objects, arrays and functions give their text
ToPrimitive(st, v) ==
    Bind(TreeOf(st, v), LAMBDA tree :
        IF tree.t \in {"object", "array", "function"} THEN Str(ToText(tree)) ELSE tree)

\* ToNumber
ToNumber(st, v) ==
    Bind(ToPrimitive(st, v), LAMBDA p :
        CASE p.t = "undefined" -> NaN
          [] p.t = "null" -> Num(0)
          [] p.t = "boolean" -> Num(IF p.b THEN 1 ELSE 0)
          [] p.t \in {"number", "nan"} -> p
          [] p.t = "string" -> TextToNumber(p.s))

\* ToBoolean
Truthy(v) ==
    CASE v.t \in {"undefined", "null", "nan"} -> FALSE
      [] v.t = "number" -> v.n # 0
      [] v.t = "string" -> TextLength(v.s) > 0
      [] v.t = "boolean" -> v.b
      [] v.t \in {"ref", "function", "object", "array"} -> TRUE

\* l + r
PlusPrimitives(st, lp, rp) ==
    IF lp.t = "string" \/ rp.t = "string" THEN Str(ToText(lp) \o ToText(rp))
    ELSE Bind(ToNumber(st, lp), LAMBDA ln :
         Bind(ToNumber(st, rp), LAMBDA rn :
             IF ln.t = "nan" \/ rn.t = "nan" THEN NaN ELSE Num(ln.n + rn.n)))

Plus(st, l, r) == PlusPrimitives(st, ToPrimitive(st, l), ToPrimitive(st, r))

\* l < r and l > r, where l and r are not both texts
RelationalPrimitives(st, o, lp, rp) ==
    CASE ~(lp.t = "string" /\ rp.t = "string") ->
        Bind(ToNumber(st, lp), LAMBDA ln :
        Bind(ToNumber(st, rp), LAMBDA rn :
            IF ln.t = "nan" \/ rn.t = "nan" THEN Bool(FALSE)
            ELSE IF o = "<" THEN Bool(ln.n < rn.n) ELSE Bool(ln.n > rn.n)))

Relational(st, o, l, r) ==
    RelationalPrimitives(st, o, ToPrimitive(st, l), ToPrimitive(st, r))

\* String.prototype.toUpperCase / toLowerCase on the words data and results hold
UpperChunk(c) ==
    CASE c \in {"h", "H"} -> "H"
      [] c \in {"i", "I"} -> "I"
      [] c \in {"true", "false", "null", "undefined"} ->
            (CASE c = "true" -> "TRUE" [] c = "false" -> "FALSE"
               [] c = "null" -> "NULL" [] c = "undefined" -> "UNDEFINED")
      [] c = "NaN" -> "NAN"
      [] c = "[object Object]" -> "[OBJECT OBJECT]"
      [] c \in DigitSet \cup {",", " "} -> c

LowerChunk(c) ==
    CASE c \in {"h", "H"} -> "h"
      [] c \in {"i", "I"} -> "i"
      [] c \in {"true", "false", "null", "undefined"} -> c
      [] c = "NaN" -> "nan"
      [] c = "[object Object]" -> "[object object]"
      [] c \in DigitSet \cup {",", " "} -> c

\* str || ''
OrEmpty(v) == IF Truthy(v) THEN v ELSE Str(<<>>)

Arg(args, i) == IF i <= Len(args) THEN args[i] ELSE Undef

\* !isNaN(new Date(date).getTime()) for a truthy date: a number or a
\* boolean is a time value; any other value is parsed as its text, and the
\* texts of the data are not dates
DateValid(date) ==
    CASE date.t \in {"number", "boolean"} -> TRUE
      [] date.t = "nan" -> FALSE
      [] date.t \in {"string", "object", "array"} ->
            (CASE ToText(date) \in {<<"h", "i">>, <<"[object Object]">>} -> FALSE)

\* the calls of a helper that throw: formatDate reaches formatStr.replace
\* with a formatStr that is neither left out nor a text
FormatterThrows(name, args) ==
    /\ name = "formatDate"
    /\ Truthy(Arg(args, 1))
    /\ DateValid(Arg(args, 1))
    /\ Arg(args, 2).t \notin {"undefined", "string"}

\* the message of the TypeError
FormatterError(name, args) ==
    IF Arg(args, 2).t = "null"
    THEN <<"Cannot read properties of ", "null", " (reading '", "replace", "')">>
    ELSE <<"formatStr.replace is not a function">>

\* FORMATTERS[name](...args), args given as trees
CallFormatter(name, args) ==
    CASE name = "formatDate" ->
            IF ~Truthy(Arg(args, 1)) THEN Str(<<>>)
            ELSE IF ~DateValid(Arg(args, 1)) THEN Str(<<"Invalid Date">>)
            ELSE \* a pattern without a token comes back as it is
                 (CASE Arg(args, 2).t = "string" /\ Arg(args, 2).s \in {<<>>, <<"h", "i">>} ->
                        Arg(args, 2))
      [] name = "toUpper" ->
            Bind(ToText(OrEmpty(Arg(args, 1))), LAMBDA s :
                Str([i \in 1..Len(s) |-> UpperChunk(s[i])]))
      [] name = "toLower" ->
            Bind(ToText(OrEmpty(Arg(args, 1))), LAMBDA s :
                Str([i \in 1..Len(s) |-> LowerChunk(s[i])]))
      [] name = "length" ->
            LET item == Arg(args, 1)
            IN IF ~Truthy(item) THEN Num(0)
               ELSE (CASE item.t = "string" -> Num(TextLength(item.s))
                       [] item.t = "array" -> Num(Len(item.items))
                       [] item.t = "function" -> Num(Arity(item.name))
                       [] item.t = "object" ->
                             IF GetEntry(item.props, <<"length">>).t # "undefined"
                             THEN GetEntry(item.props, <<"length">>) ELSE Num(0)
                       [] item.t \in {"number", "boolean"} -> Num(0))

\* f(...args) for a helper f: its result, or what it throws
ApplyFormatter(name, args, st) ==
    IF FormatterThrows(name, args) THEN Throw(FormatterError(name, args), st)
    ELSE Ret(CallFormatter(name, args), st)

RECURSIVE Eval(_, _)
RECURSIVE EvalArgs(_, _, _)

\* the arguments of a call, left to right: [thrown, vs | msg, st]
EvalArgs(es, st, acc) ==
    IF es = <<>> THEN [thrown |-> FALSE, vs |-> acc, st |-> st]
    ELSE LET a == Eval(Head(es), st)
         IN IF a.thrown THEN a ELSE EvalArgs(Tail(es), a.st, Append(acc, a.v))

Eval(e, st) ==
    CASE e.op = "num" -> Ret(Num(e.n), st)
      [] e.op = "id" ->
            IF Resolvable(st, e.name) THEN Ret(Lookup(st, e.name), st)
            ELSE Throw(ReferenceError(e.name), st)
      [] e.op = "seq" ->
            LET l == Eval(e.l, st) IN IF l.thrown THEN l ELSE Eval(e.r, l.st)
      [] e.op = "typeof" ->
            IF e.e.op = "id" /\ ~Resolvable(st, e.e.name) THEN Ret(Str(<<"undefined">>), st)
            ELSE LET x == Eval(e.e, st)
                 IN IF x.thrown THEN x ELSE Ret(Str(<<TypeOf(x.v)>>), x.st)
      [] e.op = "pos" ->
            LET x == Eval(e.e, st)
            IN IF x.thrown THEN x ELSE Ret(ToNumber(x.st, x.v), x.st)
      [] e.op = "or" ->
            LET l == Eval(e.l, st)
            IN IF l.thrown \/ Truthy(l.v) THEN l ELSE Eval(e.r, l.st)
      [] e.op \in {"add", "rel"} ->
            LET l == Eval(e.l, st)
            IN IF l.thrown THEN l
               ELSE LET r == Eval(e.r, l.st)
                    IN IF r.thrown THEN r
                       ELSE IF e.op = "add" THEN Ret(Plus(r.st, l.v, r.v), r.st)
                       ELSE Ret(Relational(r.st, e.o, l.v, r.v), r.st)
      [] e.op = "member" ->
            LET o == Eval(e.obj, st)
            IN IF o.thrown THEN o
               ELSE IF o.v.t \in {"undefined", "null"}
               THEN Throw(ReadTypeError(o.v, e.prop), o.st)
               ELSE Ret(GetProp(o.st, o.v, e.prop), o.st)
      [] e.op = "call" ->
            LET f == Eval(e.fn, st)
            IN IF f.thrown THEN f
               ELSE LET a == EvalArgs(e.args, f.st, <<>>)
                    IN IF a.thrown THEN a
                       ELSE IF f.v.t # "function" THEN Throw(CallTypeError, a.st)
                       ELSE ApplyFormatter(f.v.name,
                                [i \in 1..Len(a.vs) |-> TreeOf(a.st, a.vs[i])], a.st)
      [] e.op = "assign" /\ e.target.op = "id" ->
            \* a parameter is rebound; otherwise the (sloppy-mode) write goes
            \* to the global object.  Only primitives are written.
            LET r == Eval(e.e, st)
            IN IF r.thrown THEN r
               ELSE (CASE r.v.t \notin {"ref"} ->
                      IF HasKey(r.st.env, <<e.target.name>>)
                      THEN Ret(r.v, [r.st EXCEPT !.env = PutEntry(@, <<e.target.name>>, r.v)])
                      ELSE IF <<e.target.name>> \in ReadOnlyGlobals THEN Ret(r.v, r.st)
                      ELSE Ret(r.v, [r.st EXCEPT !.host = PutEntry(@, <<e.target.name>>, r.v)]))
      [] e.op = "assign" /\ e.target.op = "member" ->
            LET o == Eval(e.target.obj, st)
            IN IF o.thrown THEN o
               ELSE LET r == Eval(e.e, o.st)
                    IN IF r.thrown THEN r
                       ELSE IF o.v.t \in {"undefined", "null"}
                       THEN Throw(WriteTypeError(o.v, e.target.prop), r.st)
                       ELSE IF o.v.t = "ref" /\ Deref(r.st, o.v).t = "object"
                       THEN \* only primitives are written, over primitives
                            (CASE r.v.t \notin {"ref"}
                                  /\ GetProp(r.st, o.v, e.target.prop).t # "ref" ->
                                Ret(r.v, WriteRef(r.st, o.v, <<e.target.prop>>, r.v)))
                       ELSE (CASE o.v.t \in {"number", "nan", "string", "boolean"} ->
                                Ret(r.v, r.st))

-----------------------------------------------------------------------------
(* validateSnippet and evaluateExpression.  A store is [nodes, host].      *)

\* the body of the try block both functions share:
\*   const argNames = Object.keys(context); const argValues = Object.values(context);
\*   const cleanCode = ...; const fn = new Function(...argNames, ...); fn(...argValues);
RunBody(argNames, body, st) ==
    IF \E i \in 1..Len(argNames) : ~ValidParam(argNames[i]) THEN Throw(ParamErrorMsg, st)
    ELSE IF ~body.ok THEN Throw(SyntaxErrorMsg, st)
    ELSE Eval(body.ast, st)

RunSnippet(code, context, store) ==
    Force(ParseBody(CleanCode(code)), LAMBDA body :
        RunBody(Keys(context), body,
                [env |-> context, nodes |-> store.nodes, host |-> store.host]))

StoreOf(st) == [nodes |-> st.nodes, host |-> st.host]

validateSnippet(code, context, store) ==
    Bind(RunSnippet(code, context, store), LAMBDA run :
        IF run.thrown
        THEN [isValid |-> FALSE, message |-> run.msg, store |-> StoreOf(run.st)]
        ELSE [isValid |-> TRUE, message |-> <<>>, store |-> StoreOf(run.st)])

\* `[Error: ${err instanceof Error ? err.message : 'Invalid Expression'}]`
ErrorMarker(msg) == <<"[Error: ">> \o msg \o <<"]">>

\* String(result) for every result
StringOfResult(st, result) == ToText(TreeOf(st, result))

\* lines 188-190: the text of a result
Stringify(st, result) ==
    IF result.t = "undefined" THEN <<>>
    ELSE IF TypeOf(result) = "object" THEN JSONText(TreeOf(st, result))
    ELSE ToText(result)

\* the replace callback for one match: the replacement text, the store it
\* leaves, and (for the record) whether the catch branch ran and the result
Replacement(code, context, store) ==
    Bind(RunSnippet(code, context, store), LAMBDA run :
        IF run.thrown
        THEN [text |-> ErrorMarker(run.msg), store |-> StoreOf(run.st),
              failed |-> TRUE, val |-> Undef]
        ELSE [text |-> Stringify(run.st, run.v), store |-> StoreOf(run.st),
              failed |-> FALSE, val |-> TreeOf(run.st, run.v)])

\* the callback run on the matches ms[lo], ..., ms[hi] in order, the first
\* from store, each other one from the store the one before it leaves
RECURSIVE ReplaceRange(_, _, _, _, _, _)
ReplaceRange(s, ms, lo, hi, context, store) ==
    IF lo > hi THEN [store |-> store, blocks |-> <<>>]
    ELSE IF lo = hi
    THEN Force(Replacement(Group1(s, ms[lo]), context, store), LAMBDA rep :
            [store |-> rep.store,
             blocks |-> <<[s |-> ms[lo].s, e |-> ms[lo].e, text |-> rep.text,
                           failed |-> rep.failed, val |-> rep.val]>>])
    ELSE Force(ReplaceRange(s, ms, lo, (lo + hi) \div 2, context, store), LAMBDA left :
         Force(ReplaceRange(s, ms, (lo + hi) \div 2 + 1, hi, context, left.store),
               LAMBDA right :
                 [store |-> right.store, blocks |-> left.blocks \o right.blocks]))

\* s with the matches ms replaced by the texts of blocks
Replaced(s, ms, blocks) ==
    Concat([i \in 1..Len(ms) |->
               SubSeq(s, IF i = 1 THEN 1 ELSE ms[i - 1].e + 1, ms[i].s - 1)
                   \o blocks[i].text])
        \o SubSeq(s, IF ms = <<>> THEN 1 ELSE ms[Len(ms)].e + 1, Len(s))

\* replace without the g flag: only the first match is replaced
ReplaceFirst(s, context, store) ==
    Force(RegexMatches(s, 1), LAMBDA all :
    Force(SubSeq(all, 1, IF all = <<>> THEN 0 ELSE 1), LAMBDA ms :
    Force(ReplaceRange(s, ms, 1, Len(ms), context, store), LAMBDA r :
        [out |-> Replaced(s, ms, r.blocks), store |-> r.store, blocks |-> r.blocks])))

\* expression.replace(EXPRESSION_REGEX, callback)
ReplaceAll(s, context, store) ==
    Force(RegexMatches(s, 1), LAMBDA ms :
    Force(ReplaceRange(s, ms, 1, Len(ms), context, store), LAMBDA r :
        [out |-> Replaced(s, ms, r.blocks), store |-> r.store, blocks |-> r.blocks]))

evaluateExpression(expression, store) ==
    IF expression = <<>> THEN [out |-> <<>>, store |-> store, blocks |-> <<>>]
    ELSE Force(buildEvaluationContext(store.nodes), LAMBDA context :
            ReplaceAll(expression, context, store))

-----------------------------------------------------------------------------
(* getHighlightedText of the editor, with validator = code =>              *)
(* validateSnippet(code, evaluationContext)                                *)

\* value.split(/(\{\{.*?\}\})/g): the texts between the matches and the
\* matches themselves, each with its first position
SplitParts(s, ms) ==
    Concat([i \in 1..Len(ms) |->
               <<[s |-> IF i = 1 THEN 1 ELSE ms[i - 1].e + 1,
                  text |-> SubSeq(s, IF i = 1 THEN 1 ELSE ms[i - 1].e + 1, ms[i].s - 1)],
                 [s |-> ms[i].s, text |-> SubSeq(s, ms[i].s, ms[i].e)]>>])
        \o <<[s |-> IF ms = <<>> THEN 1 ELSE ms[Len(ms)].e + 1,
              text |-> SubSeq(s, IF ms = <<>> THEN 1 ELSE ms[Len(ms)].e + 1, Len(s))]>>

\* part.startsWith('{{') && part.endsWith('}}')
IsBlockPart(part) == StartsAt(part, 1, OPEN) /\ EndsWith(part, CLOSE)

\* part.slice(2, -2).trim()
InnerCode(part) == Trim(SubSeq(part, 3, Len(part) - 2))

\* parts.map(...) on parts[lo], ..., parts[hi]: the classified parts in
\* order, each validated from the store the one before it leaves
RECURSIVE ClassifyParts(_, _, _, _, _)
ClassifyParts(parts, lo, hi, context, store) ==
    IF lo > hi THEN [spans |-> <<>>, store |-> store]
    ELSE IF lo = hi
    THEN IF IsBlockPart(parts[lo].text)
         THEN Force(validateSnippet(InnerCode(parts[lo].text), context, store),
                    LAMBDA validation :
                [spans |-> <<[s |-> parts[lo].s,
                              e |-> parts[lo].s + Len(parts[lo].text) - 1,
                              code |-> CleanCode(InnerCode(parts[lo].text)),
                              isValid |-> validation.isValid]>>,
                 store |-> validation.store])
         ELSE [spans |-> <<>>, store |-> store]
    ELSE Force(ClassifyParts(parts, lo, (lo + hi) \div 2, context, store), LAMBDA left :
         Force(ClassifyParts(parts, (lo + hi) \div 2 + 1, hi, context, left.store),
               LAMBDA right :
                 [spans |-> left.spans \o right.spans, store |-> right.store]))

getHighlightedText(value, context, store) ==
    IF value = <<>> THEN [spans |-> <<>>, store |-> store]
    ELSE Force(SplitParts(value, RegexMatches(value, 1)), LAMBDA parts :
            ClassifyParts(parts, 1, Len(parts), context, store))

-----------------------------------------------------------------------------
(* flattenObjectToSchema *)

\* the first n characters of a chunk longer than n
PrefixChunk(c, n) ==
    CASE c = "null" -> (CASE n = 1 -> "n" [] n = 2 -> "nu" [] n = 3 -> "nul")
      [] c = "true" -> (CASE n = 1 -> "t" [] n = 2 -> "tr" [] n = 3 -> "tru")
      [] c = "false" -> (CASE n = 1 -> "f" [] n = 2 -> "fa" [] n = 3 -> "fal" [] n = 4 -> "fals")

\* s.substring(0, n)
RECURSIVE Substring0(_, _)
Substring0(s, n) ==
    IF s = <<>> \/ n <= 0 THEN <<>>
    ELSE IF Len(Head(s)) <= n THEN <<Head(s)>> \o Substring0(Tail(s), n - Len(Head(s)))
    ELSE <<PrefixChunk(Head(s), n)>>

PreviewLength == 20

\* Object.keys(obj) and obj[key] of a value that is neither null nor
\* undefined: own properties of an object, indices of an array or a text
OwnEntries(obj) ==
    CASE obj.t = "object" -> obj.props
      [] obj.t = "array" -> [i \in 1..Len(obj.items) |-> P(NumToText(i - 1), obj.items[i])]
      [] obj.t = "string" -> [i \in 1..Len(obj.s) |-> P(NumToText(i - 1), Str(<<obj.s[i]>>))]
      [] obj.t \in {"number", "nan", "boolean", "function"} -> <<>>

\* Array.isArray(value) ? ARRAY : value === null ? NULL
\*   : typeof value === 'object' ? OBJECT : typeof value
TypeTag(value) ==
    IF value.t = "array" THEN "array"
    ELSE IF value.t = "null" THEN "null"
    ELSE IF TypeOf(value) = "object" THEN "object"
    ELSE TypeOf(value)

\* const currentPath = parentPath ? `${parentPath}.${key}` : key;
CurrentPath(parentPath, key) ==
    IF TextLength(parentPath) > 0 THEN parentPath \o <<".">> \o key ELSE key

\* the descriptor pushed for one key
SchemaItem(parentPath, key, value) ==
    [path |-> CurrentPath(parentPath, key),
     key |-> key,
     type |-> TypeTag(value),
     value |-> IF TypeOf(value) = "object"
               THEN Str(Substring0(JSONText(value), PreviewLength) \o <<"...">>)
               ELSE value,
     isExpandable |-> TypeTag(value) \in {"object", "array"}]

RECURSIVE flattenObjectToSchema(_, _)
RECURSIVE FlattenEntries(_, _)

\* the loop with the descriptors of a nested object pushed after those of
\* the keys that follow it
FlattenSiblingsFirst(entries, parentPath) ==
    IF entries = <<>> THEN <<>>
    ELSE LET key == Head(entries).k
             value == Head(entries).v
             item == SchemaItem(parentPath, key, value)
         IN <<item>>
            \o FlattenEntries(Tail(entries), parentPath)
            \o (IF item.type = "object" /\ value.t # "null" /\ value.t # "array"
                THEN flattenObjectToSchema(value, item.path)
                ELSE <<>>)

\* Object.keys(obj).forEach(...) over the entries that are left
FlattenEntries(entries, parentPath) ==
    IF entries = <<>> THEN <<>>
    ELSE LET key == Head(entries).k
             value == Head(entries).v
             item == SchemaItem(parentPath, key, value)
         IN <<item>>
            \o (IF item.type = "object" /\ value.t # "null" /\ value.t # "array"
                THEN flattenObjectToSchema(value, item.path)
                ELSE <<>>)
            \o FlattenEntries(Tail(entries), parentPath)

\* flatten that returns [] for whatever is not a plain object
FlattenOnlyObjects(obj, parentPath) ==
    IF obj.t # "object" THEN <<>> ELSE FlattenEntries(obj.props, parentPath)

flattenObjectToSchema(obj, parentPath) ==
    IF obj.t \in {"null", "undefined"} THEN <<>>
    ELSE FlattenEntries(OwnEntries(obj), parentPath)

-----------------------------------------------------------------------------
(* generateAutocompleteOptions *)

FUNCTION_METADATA ==
    [toUpper |-> [description |-> <<"Converts a string to uppercase.">>,
                  usage |-> <<"toUpper", "(", "value", ")">>],
     toLower |-> [description |-> <<"Converts a string to lowercase.">>,
                  usage |-> <<"toLower", "(", "value", ")">>],
     truncate |-> [description |-> <<"Truncates a string to a specified length.">>,
                   usage |-> <<"truncate", "(", "value", ",", " ", "1", "0", ")">>],
     formatDate |-> [description |-> <<"Formats a date string or object.">>,
                     usage |-> <<"formatDate", "(", "value", ",", " ", "'YYYY-MM-DD'", ")">>],
     now |-> [description |-> <<"Returns the current date and time.">>,
              usage |-> <<"now", "(", ")">>],
     formatCurrency |-> [description |-> <<"Formats a number as currency.">>,
                         usage |-> <<"formatCurrency", "(", "1", "0", "0", ",", " ", "'USD'", ")">>],
     round |-> [description |-> <<"Rounds a number to specified decimal places.">>,
                usage |-> <<"round", "(", "1", "0", ".", "5", "5", "5", ",", " ", "2", ")">>],
     json |-> [description |-> <<"Stringifies an object/array to JSON.">>,
               usage |-> <<"json", "(", "value", ")">>],
     join |-> [description |-> <<"Joins array elements into a string.">>,
               usage |-> <<"join", "(", "value", ",", " ", "', '", ")">>],
     length |-> [description |-> <<"Returns the length of a string or array.">>,
                 usage |-> <<"length", "(", "value", ")">>]]

DescriptionLength == 50

\* .map(v => ({...v, description: ..., usage: `{{ ${v.path} }}`}))
VariableOption(v) ==
    [path |-> v.path, key |-> v.key, type |-> v.type, value |-> v.value,
     isExpandable |-> v.isExpandable,
     description |->
        IF TypeOf(v.value) = "object" THEN <<"Object/Array Variable">>
        ELSE <<"Current Value: ">> \o Substring0(ToText(v.value), DescriptionLength),
     usage |-> OPEN \o <<" ">> \o v.path \o <<" ">> \o CLOSE]

\* nodes.flatMap(node => flattenObjectToSchema(node.data, node.name)).map(...)
Variables(ns) ==
    Concat([i \in 1..Len(ns) |->
        [j \in 1..Len(flattenObjectToSchema(ns[i].data, ns[i].name)) |->
            VariableOption(flattenObjectToSchema(ns[i].data, ns[i].name)[j])]])

\* Object.keys(FORMATTERS).map(fnName => ({...}))
Functions ==
    [i \in 1..Len(FORMATTER_NAMES) |->
        [path |-> <<FORMATTER_NAMES[i]>>, key |-> <<FORMATTER_NAMES[i]>>,
         type |-> "function", value |-> Str(<<"Function">>), isExpandable |-> FALSE,
         description |-> FUNCTION_METADATA[FORMATTER_NAMES[i]].description,
         usage |-> FUNCTION_METADATA[FORMATTER_NAMES[i]].usage]]

\* return [...variables, ...functions]
VariablesFirst(ns) == Variables(ns) \o Functions

\* return [...functions, ...variables]
generateAutocompleteOptions(ns) == Functions \o Variables(ns)

\* nodes.flatMap / nodes.forEach on a value that is not an array, and
\* node.data / node.name on a node that is null or undefined, throw a TypeError
NodesThrow(ns) ==
    \/ ns.t \in {"null", "undefined"}
    \/ \E i \in 1..Len(ns.items) : ns.items[i].t \in {"null", "undefined"}

-----------------------------------------------------------------------------
(* The state ExpressionEditor and App are constructed with: useState(null)  *)
(* for insertPath, useState(false) for showMenu, '' for query, 0 for        *)
(* selectedIndex, -1 for triggerIndex, [] for filteredOptions; no frame is  *)
(* requested and the textarea's selection is at offset 0.                   *)

EditorIdle ==
    /\ insertPath = Null
    /\ effectDeps = Null
    /\ selectionStart = 0
    /\ selectionEnd = 0
    /\ showMenu = FALSE
    /\ query = <<>>
    /\ selectedIndex = 0
    /\ triggerIndex = -1
    /\ filteredOptions = <<>>
    /\ frames = <<>>
    /\ typed = 0
    /\ clicked = <<>>
    /\ inserted = <<>>

-----------------------------------------------------------------------------
(* The session: a caller that holds nodes and a text, and calls the engine *)

W == <<"W">>

\* the data of node W
WData ==
    Obj(<<P(<<"a">>, Num(1)),
          P(<<"s">>, Str(<<"h", "i">>)),
          P(<<"t">>, Bool(TRUE)),
          P(<<"z">>, Null),
          P(<<"o">>, Obj(<<P(<<"b">>, Num(1)), P(<<"u">>, Undef), P(<<"s">>, Str(<<"h", "i">>))>>)),
          P(<<"l">>, Arr(<<Num(1), Null, Str(<<"h", "i">>), Undef>>))>>)

\* a node whose name is not an identifier
HttpRequest == [name |-> <<"HTTP", " ", "Request">>, data |-> Obj(<<P(<<"a">>, Num(1))>>)]

NodeSets == { <<[name |-> W, data |-> WData]>>,
              <<[name |-> W, data |-> WData], HttpRequest>> }

\* the globals a snippet can reach
HostGlobals == <<P(<<"undefined">>, Undef), P(<<"Math">>, Obj(<<>>))>>

Blk(inner) == OPEN \o <<" ">> \o inner \o <<" ">> \o CLOSE

\* the pieces of text a caller types
Segments ==
    { <<"Hi", " ">>,
      Blk(<<"W", ".", "a">>),
      Blk(<<"W", ".", "a", " ", "=", " ", "2">>),
      Blk(<<"(", "W", ".", "a", " ", "=", " ", "2", ")", " ", "+", " ", "Bad">>),
      Blk(<<"Bad", ".", "ref">>) \o <<" ", "and", " ">> \o Blk(<<"W", ".", "a">>),
      Blk(<<"1", "+", "1">>),
      Blk(<<"typeof", " ", "Bad">>) \o Blk(<<"Math">>) \o Blk(<<"1", " ", "||", " ", "Bad">>),
      Blk(<<"W", ".", "o">>) \o Blk(<<"W", ".", "l">>) \o Blk(<<"W", ".", "z">>),
      Blk(<<"W", ".", "s">>) \o Blk(<<"W", ".", "u">>) \o Blk(<<"W", ".", "t">>)
          \o Blk(<<"toUpper">>),
      Blk(<<"toUpper", "(", "W", ".", "s", ")">>) \o Blk(<<"W", ".", "a", " ", "&gt;", " ", "1">>),
      Blk(<<"formatDate", "(", "1", ",", " ", "1", ")">>),
      OPEN \o <<" ", "1", " ", "+", "\n", "1", " ">> \o CLOSE,
      <<"1", " ">> \o CLOSE \o OPEN \o <<" ", "2", " ">>,
      <<"Bad", "\n">>,
      <<"{">> }

None == [op |-> "none"]

Store == [nodes |-> nodes, host |-> host]

\* const evaluationContext = useMemo(() => buildEvaluationContext(MOCK_NODES), []);
evaluationContext == buildEvaluationContext(fresh.nodes)

Init ==
    /\ EditorIdle
    /\ nodes \in NodeSets
    /\ host = HostGlobals
    /\ doc = <<>>
    /\ nsegs = 0
    /\ last = None
    /\ fresh = [nodes |-> nodes, host |-> host]

TypeSegment(seg) ==
    /\ nsegs < MaxSegs
    /\ doc' = doc \o seg
    /\ nsegs' = nsegs + 1
    /\ last' = None
    /\ UNCHANGED <<nodes, host, fresh>>
    /\ UNCHANGED edvars

ClearDocument ==
    /\ nsegs > 0
    /\ doc' = <<>>
    /\ nsegs' = 0
    /\ last' = None
    /\ UNCHANGED <<nodes, host, fresh>>
    /\ UNCHANGED edvars

\* evaluateExpression(expression, MOCK_NODES)
CallEvaluate ==
    \E r \in {evaluateExpression(doc, Store)} :
       /\ last' = [op |-> "evaluate", doc |-> doc, before |-> Store,
                   out |-> r.out, blocks |-> r.blocks]
       /\ nodes' = r.store.nodes
       /\ host' = r.store.host
       /\ UNCHANGED <<doc, nsegs, fresh>>
       /\ UNCHANGED edvars

\* validator(code) = validateSnippet(code, evaluationContext)
CallValidate ==
    \E r \in {validateSnippet(doc, evaluationContext, Store)} :
       /\ last' = [op |-> "validate", doc |-> doc, before |-> Store,
                   isValid |-> r.isValid, message |-> r.message]
       /\ nodes' = r.store.nodes
       /\ host' = r.store.host
       /\ UNCHANGED <<doc, nsegs, fresh>>
       /\ UNCHANGED edvars

\* one rendering of the highlighted text
CallHighlight ==
    \E r \in {getHighlightedText(doc, evaluationContext, Store)} :
       /\ last' = [op |-> "highlight", doc |-> doc, before |-> Store, spans |-> r.spans]
       /\ nodes' = r.store.nodes
       /\ host' = r.store.host
       /\ UNCHANGED <<doc, nsegs, fresh>>
       /\ UNCHANGED edvars

Next ==
    \/ \E seg \in Segments : TypeSegment(seg)
    \/ ClearDocument
    \/ CallEvaluate
    \/ CallValidate
    \/ CallHighlight

Spec == Init /\ [][Next]_vars

-----------------------------------------------------------------------------
(* The fragment of JavaScript the parser above covers.  A snippet is in     *)
(* the fragment when the chunks read as tokens one by one and no construct  *)
(* outside the grammar (an object literal, a compound operator, automatic   *)
(* semicolon insertion) can make it a valid program.                        *)

BadPairs ==
    { <<"=", "=">>, <<">", "=">>, <<"<", "=">>, <<"+", "=">>, <<"||", "=">>,
      <<"=", ">">>, <<"+", "+">>, <<">", ">">>, <<"<", "<">>, <<".", ".">> }

\* the first position at or after i whose chunk is not in skip, 0 if none
FirstNotIn(s, i, skip) ==
    IF \A j \in i..Len(s) : s[j] \in skip THEN 0
    ELSE Min({j \in i..Len(s) : s[j] \notin skip})

\* `return (` and the text before position j make a complete statement, so
\* that a line terminator at j would end it
CompleteBefore(c, j) == ParseTokens(Tokens(<<"(">> \o SubSeq(c, 1, j - 1))).ok

InFragment(code) ==
    LET c == CleanCode(code)
        brace == FirstNotIn(c, 1, {x \in {c[j] : j \in 1..Len(c)} : x # "{"})
        after == IF brace = 0 THEN 0
                 ELSE FirstNotIn(c, brace + 1,
                        {x \in {c[j] : j \in 1..Len(c)} :
                            IsIdent(x) \/ x \in WhiteSpace \cup {","}})
    IN /\ \A i \in 1..(Len(c) - 1) :
            /\ ~(IsWord(c[i]) /\ IsWord(c[i + 1]) /\ ~(c[i] \in DigitSet /\ c[i + 1] \in DigitSet))
            /\ <<c[i], c[i + 1]>> \notin BadPairs
            /\ ~(c[i] = "." /\ c[i + 1] \in DigitSet)
            /\ ~(c[i] \in DigitSet /\ c[i + 1] = ".")
       /\ (after # 0 /\ \E j \in (brace + 1)..Len(c) : c[j] = "}") => c[after] \notin {"}", "("}
       /\ \A j \in 1..Len(c) : c[j] \in LineTerminators => ~CompleteBefore(c, j)

\* the snippets the last call handed to the Function constructor
SnippetsOf(call) ==
    CASE call.op = "evaluate" ->
            {Group1(call.doc, RegexMatches(call.doc, 1)[i]) :
                i \in 1..Len(RegexMatches(call.doc, 1))}
      [] call.op = "validate" -> {call.doc}
      [] call.op = "highlight" ->
            {InnerCode(part.text) :
                part \in {x \in {SplitParts(call.doc, RegexMatches(call.doc, 1))[i] :
                                    i \in 1..(2 * Len(RegexMatches(call.doc, 1)) + 1)} :
                             IsBlockPart(x.text)}}
      [] call.op = "none" -> {}

\* every snippet the session runs is in the fragment
SnippetsInFragment == \A code \in SnippetsOf(last) : InFragment(code)

-----------------------------------------------------------------------------
(* Properties of evaluate, validate and the highlighter, stated on the last *)
(* call of the session.                                                     *)

HasMarker(out) == \E i \in 1..Len(out) : out[i] = "[Error: "

\* what block b of document d yields when it is the only block of the document
Alone(d, b, store) == evaluateExpression(SubSeq(d, b.s, b.e), store).out

\* C1: when one block of a document fails, only that block becomes the error
\* marker and every other block of the document is replaced by exactly the
\* text it yields as the only block of a document on the same context.
C1_FailureIsolated ==
    last.op = "evaluate" =>
        \A j \in 1..Len(last.blocks) :
            last.blocks[j].failed =>
                \A i \in 1..Len(last.blocks) :
                    i # j => last.blocks[i].text = Alone(last.doc, last.blocks[i], last.before)

\* C2: for a snippet s, when evaluate of the document "{{" s "}}" contains no
\* error marker, validate of s reports isValid = true.
C2_NoMarkerImpliesValid ==
    last.op = "validate" =>
        (~HasMarker(evaluateExpression(OPEN \o last.doc \o CLOSE, last.before).out)
            => last.isValid)

\* C3: the blocks the highlighter classifies are the blocks evaluate
\* substitutes, with the same spans and the same inner text, and a block is
\* classified isValid = false exactly when evaluate replaces it by a marker.
C3_HighlightAgreesWithEvaluate ==
    last.op = "highlight" =>
        LET ev == evaluateExpression(last.doc, last.before).blocks
        IN /\ Len(last.spans) = Len(ev)
           /\ \A i \in 1..Len(ev) :
                /\ last.spans[i].s = ev[i].s
                /\ last.spans[i].e = ev[i].e
                /\ last.spans[i].code = CleanCode(Group1(last.doc, ev[i]))
                /\ last.spans[i].isValid = ~ev[i].failed

\* C4: a call of evaluate or validate returns what the same call returns as
\* the first call on the freshly built nodes: earlier calls leave no trace.
C4_Stateless ==
    /\ last.op = "evaluate" => last.out = evaluateExpression(last.doc, fresh).out
    /\ last.op = "validate" =>
          LET first == validateSnippet(last.doc, evaluationContext, fresh)
          IN last.isValid = first.isValid /\ last.message = first.message

\* C5: after evaluate or validate returns, the data of every node, and with
\* it every entry of the evaluation context, is what it was before the call.
C5_InputsUnchanged ==
    last.op \in {"evaluate", "validate"} => Store = last.before

\* the identifiers a snippet references: its identifier tokens other than
\* property names
ReferencedIdentifiers(code) ==
    LET ts == Tokens(CleanCode(code))
    IN {ts[i] : i \in {j \in 1..Len(ts) :
                          IsIdent(ts[j]) /\ ~(j > 1 /\ ts[j - 1] = ".")}}

\* the context keys that an identifier can name
ContextKeys(store) ==
    LET ks == Keys(buildEvaluationContext(store.nodes))
    IN {ks[i][1] : i \in {j \in 1..Len(ks) : Len(ks[j]) = 1}}

\* C6: a block that references an identifier that is not a key of the
\* evaluation context is replaced by an error marker.
C6_OnlyContextKeysResolve ==
    last.op = "evaluate" =>
        \A i \in 1..Len(last.blocks) :
            (ReferencedIdentifiers(Group1(last.doc, last.blocks[i]))
                    \ ContextKeys(last.before) # {})
                => last.blocks[i].failed

\* the first position at or after p where pat starts, 0 if none
Find(s, p, pat) ==
    IF \A j \in p..Len(s) : ~StartsAt(s, j, pat) THEN 0
    ELSE Min({j \in p..Len(s) : StartsAt(s, j, pat)})

\* the spans from the leftmost "{{" not yet consumed that a "}}" follows to
\* the first "}}" after it, whatever lies between
RECURSIVE DelimitedSpans(_, _)
DelimitedSpans(s, p) ==
    LET o == Find(s, p, OPEN)
        c == IF o = 0 THEN 0 ELSE Find(s, o + 2, CLOSE)
    IN IF c = 0 THEN <<>>
       ELSE <<[s |-> o, e |-> c + 1]>> \o DelimitedSpans(s, c + 2)

SpansOf(blocks) == [i \in 1..Len(blocks) |-> [s |-> blocks[i].s, e |-> blocks[i].e]]

\* C7: the blocks of a document are the spans from the leftmost unconsumed
\* "{{" that is followed by "}}" to the first "}}" after it, whatever text
\* lies between.
C7_BlocksAreDelimitedSpans ==
    last.op = "evaluate" => SpansOf(last.blocks) = DelimitedSpans(last.doc, 1)

\* the document from position p on with match i and the matches after it
\* replaced by the texts of the blocks
RECURSIVE Splice(_, _, _, _, _)
Splice(d, matches, blocks, i, p) ==
    IF i > Len(matches) THEN SubSeq(d, p, Len(d))
    ELSE SubSeq(d, p, matches[i].s - 1) \o blocks[i].text
            \o Splice(d, matches, blocks, i + 1, matches[i].e + 1)

\* C8: the output of evaluate is the document with each block replaced by
\* its result, in document order, every character outside the blocks kept
\* in place; a document without blocks and the empty document come back
\* unchanged.
C8_OutputIsSplice ==
    last.op = "evaluate" =>
        LET matches == RegexMatches(last.doc, 1)
        IN /\ Len(last.blocks) = Len(matches)
           /\ last.out = Splice(last.doc, matches, last.blocks, 1, 1)
           /\ (matches = <<>> => last.out = last.doc)

\* two blocks or more, text outside them, and a failing block among them
C8_Witness ==
    /\ last.op = "evaluate"
    /\ Len(last.blocks) >= 2
    /\ \E i \in 1..Len(last.doc) : last.doc[i] = "and"
    /\ \E i \in 1..Len(last.blocks) : last.blocks[i].failed
    /\ \E i \in 1..Len(last.blocks) : ~last.blocks[i].failed

\* C9: a block whose snippet yields undefined is replaced by the empty
\* text, one that yields an object or an array by its compact JSON text,
\* and one that yields any other value by the natural text of the value.
C9_Stringification ==
    last.op = "evaluate" =>
        \A i \in 1..Len(last.blocks) :
            LET b == last.blocks[i]
            IN ~b.failed =>
                 /\ b.val.t = "undefined" => b.text = <<>>
                 /\ b.val.t \in {"object", "array"} => b.text = JSONText(b.val)
                 /\ b.val.t \notin {"undefined", "object", "array"} => b.text = ToText(b.val)

\* one document whose blocks yield an object, an array, undefined, null and
\* a string
C9_Witness ==
    /\ last.op = "evaluate"
    /\ \A t \in {"object", "array", "undefined", "null", "string"} :
          \E i \in 1..Len(last.blocks) :
              ~last.blocks[i].failed /\ last.blocks[i].val.t = t

-----------------------------------------------------------------------------
(* flatten as a function of its arguments: the arguments are drawn at the   *)
(* start and the call applies flattenObjectToSchema to them.                *)

FlattenKeys == {<<"a">>, <<"b">>, <<"a", ".", "b">>, <<>>}

FlattenLeaves == {Num(1), Null, Arr(<<Obj(<<P(<<"a">>, Num(1))>>)>>)}

\* objects of at most n properties, keys from FlattenKeys, values from V
ObjectsOver(V, n) ==
    {Obj(props) : props \in
        {f \in UNION {[1..m -> [k : FlattenKeys, v : V]] : m \in 0..n} :
            \A i, j \in DOMAIN f : i # j => f[i].k # f[j].k}}

\* the other values a key holds at the top of the data
ScalarLeaves == {Str(<<"h", "i">>), Bool(TRUE), Undef}

\* the objects a key holds
InnerObjects ==
    {Obj(<<>>), Obj(<<P(<<"a">>, Num(1))>>), Obj(<<P(<<"b">>, Num(1))>>),
     Obj(<<P(<<>>, Null)>>), Obj(<<P(<<"a", ".", "b">>, Str(<<"h", "i">>))>>),
     Obj(<<P(<<"a">>, Arr(<<Num(1)>>)), P(<<"b">>, Undef)>>)}

\* data three levels deep, with a key after the nested object at each level
DeepData ==
    Obj(<<P(<<"a">>, Obj(<<P(<<"a">>, Obj(<<P(<<"a">>, Num(1)), P(<<"b">>, Bool(TRUE))>>)),
                          P(<<"b">>, Str(<<"h", "i">>))>>)),
          P(<<"b">>, Num(1))>>)

FlattenInputs ==
    ObjectsOver(FlattenLeaves \cup ScalarLeaves \cup InnerObjects, MaxKeys)
        \cup {Null, Undef, Num(1), Bool(TRUE), Str(<<"h", "i">>), Str(<<>>), Arr(<<>>),
              Arr(<<Num(1), Obj(<<P(<<"a">>, Num(1))>>)>>), DeepData}

ParentPaths == {<<>>, <<"N">>}

\* the names and the data of the nodes of a list
NodeNames == {<<"N">>, <<"M">>, <<"toUpper">>}

NodeData ==
    {Obj(<<P(<<"a">>, Num(1))>>),
     Obj(<<P(<<"a">>, Obj(<<P(<<"b">>, Null)>>)), P(<<"l">>, Arr(<<Num(1)>>))>>),
     Obj(<<P(<<"a", ".", "b">>, Num(1))>>),
     Obj(<<>>), Null, Str(<<"h", "i">>)}

Node(name, data) == [t |-> "node", name |-> name, data |-> data]

\* a node and a function of one name, with two nodes of one name
Colliding ==
    <<Node(<<"N">>, Obj(<<P(<<"a">>, Num(1))>>)),
      Node(<<"toUpper">>, Obj(<<P(<<"b">>, Null)>>)),
      Node(<<"N">>, Obj(<<>>))>>

\* the nodes argument: null, or a list of nodes some of which may be null
NodeInputs ==
    {Null, Arr(Colliding)} \cup
    {Arr(ns) : ns \in UNION {[1..m -> {Node(n, d) : n \in NodeNames, d \in NodeData}
                                       \cup {Null}] : m \in 0..MaxNodes}}

\* the arguments handed to a helper
HelperArgs ==
    {Undef, Null, Num(0), Num(1), Bool(TRUE), Str(<<>>), Str(<<"h", "i">>),
     Obj(<<>>), Arr(<<Str(<<"h", "i">>)>>)}

\* the calls of helpers: one argument for toUpper, toLower and length, a
\* date and a pattern for formatDate (a pattern with tokens is not applied
\* to a date that is valid)
HelperCalls ==
    {[name |-> n, args |-> <<a>>] : n \in {"toUpper", "toLower", "length"}, a \in HelperArgs}
    \cup {c \in {[name |-> "formatDate", args |-> <<d, f>>] : d \in HelperArgs,
                                                             f \in HelperArgs} :
             ~(Truthy(c.args[1]) /\ DateValid(c.args[1]) /\ c.args[2].t = "undefined")}

InitFlatten ==
    /\ EditorIdle
    /\ nodes = <<>>
    /\ host = <<>>
    /\ doc = <<>>
    /\ nsegs = 0
    /\ fresh = [nodes |-> <<>>, host |-> <<>>]
    /\ last \in {[op |-> "input", obj |-> o, parentPath |-> p] :
                    o \in FlattenInputs, p \in ParentPaths}
                \cup {[op |-> "nodes", nodes |-> ns] : ns \in NodeInputs}
                \cup {[op |-> "call", name |-> c.name, args |-> c.args] : c \in HelperCalls}

CallFlatten ==
    /\ last.op = "input"
    /\ last' = [op |-> "flatten", obj |-> last.obj, parentPath |-> last.parentPath,
                out |-> flattenObjectToSchema(last.obj, last.parentPath)]
    /\ UNCHANGED <<nodes, host, doc, nsegs, fresh>>
    /\ UNCHANGED edvars

\* generateAutocompleteOptions(nodes)
CallCatalog ==
    /\ last.op = "nodes"
    /\ last' = [op |-> "catalog", nodes |-> last.nodes, raised |-> NodesThrow(last.nodes),
                out |-> IF NodesThrow(last.nodes) THEN <<>>
                        ELSE generateAutocompleteOptions(last.nodes.items)]
    /\ UNCHANGED <<nodes, host, doc, nsegs, fresh>>
    /\ UNCHANGED edvars

\* buildEvaluationContext(nodes)
CallBuildContext ==
    /\ last.op = "nodes"
    /\ last' = [op |-> "context", nodes |-> last.nodes, raised |-> NodesThrow(last.nodes),
                out |-> IF NodesThrow(last.nodes) THEN <<>>
                        ELSE buildEvaluationContext(last.nodes.items)]
    /\ UNCHANGED <<nodes, host, doc, nsegs, fresh>>
    /\ UNCHANGED edvars

\* FORMATTERS[name](...args)
CallHelper ==
    /\ last.op = "call"
    /\ last' = [op |-> "helper", name |-> last.name, args |-> last.args,
                raised |-> FormatterThrows(last.name, last.args),
                out |-> IF FormatterThrows(last.name, last.args)
                        THEN Str(FormatterError(last.name, last.args))
                        ELSE CallFormatter(last.name, last.args)]
    /\ UNCHANGED <<nodes, host, doc, nsegs, fresh>>
    /\ UNCHANGED edvars

NextFlatten == CallFlatten \/ CallCatalog \/ CallBuildContext \/ CallHelper

SpecFlatten == InitFlatten /\ [][NextFlatten]_vars

\* path.split(sep): the texts between the separators
RECURSIVE SplitOn(_, _, _)
SplitOn(s, sep, cur) ==
    IF s = <<>> THEN <<cur>>
    ELSE IF Head(s) = sep THEN <<cur>> \o SplitOn(Tail(s), sep, <<>>)
    ELSE SplitOn(Tail(s), sep, Append(cur, Head(s)))

\* the key sequences of the locations described below the location `above`,
\* in the order of the descriptors
RECURSIVE LocationsOf(_, _)
LocationsOf(entries, above) ==
    IF entries = <<>> THEN <<>>
    ELSE LET here == Append(above, Head(entries).k)
             value == Head(entries).v
         IN <<here>>
            \o (IF value.t = "object" THEN LocationsOf(value.props, here) ELSE <<>>)
            \o LocationsOf(Tail(entries), above)

Locations(obj) ==
    IF obj.t \in {"null", "undefined"} THEN <<>> ELSE LocationsOf(OwnEntries(obj), <<>>)

\* C10: no two descriptors of one flatten call have the same path, and the
\* path of each descriptor split on "." is parentPath (when not empty)
\* followed by the keys that lead from the root to the described location.
C10_PathsUniqueAndSplit ==
    last.op = "flatten" =>
        LET out == last.out
            locs == Locations(last.obj)
            prefix == IF last.parentPath = <<>> THEN <<>> ELSE <<last.parentPath>>
        IN /\ \A i, j \in 1..Len(out) : i # j => out[i].path # out[j].path
           /\ Len(out) = Len(locs)
           /\ \A i \in 1..Len(out) : SplitOn(out[i].path, ".", <<>>) = prefix \o locs[i]

\* the value at a location: obj[k1][k2]...
RECURSIVE ValueAt(_, _)
ValueAt(v, loc) ==
    IF loc = <<>> THEN v ELSE ValueAt(GetEntry(OwnEntries(v), Head(loc)), Tail(loc))

\* the parts joined by "."
RECURSIVE Dotted(_)
Dotted(parts) ==
    IF Len(parts) = 1 THEN parts[1] ELSE parts[1] \o <<".">> \o Dotted(Tail(parts))

\* N followed by the dotted key path of a location
DottedPath(N, loc) == Dotted(IF N = <<>> THEN loc ELSE <<N>> \o loc)

\* the locations of the scalar leaves of nested data: the keys, reached
\* through objects, that hold a string, a number or a boolean
ScalarLocations(obj) ==
    {Locations(obj)[i] : i \in {j \in 1..Len(Locations(obj)) :
        ValueAt(obj, Locations(obj)[j]).t \in {"string", "number", "boolean"}}}

\* C11: for nested data D that is not null and a node name N, every scalar
\* leaf of D has exactly one descriptor in flatten(D, N) whose path is N
\* followed by the dotted key path to the leaf.
C11_LeavesOnce ==
    (last.op = "flatten" /\ last.obj.t = "object") =>
        \A loc \in ScalarLocations(last.obj) :
            Cardinality({i \in 1..Len(last.out) :
                            last.out[i].path = DottedPath(last.parentPath, loc)}) = 1

\* C12: the descriptors come in pre-order: the descriptor of an object-valued
\* key is followed at once by the descriptors of all that is below it, the
\* keys of one object come in the order of Object.keys, and a parent comes
\* before its descendants.  Locations is that order; descriptor i describes
\* location i.
C12_PreOrder ==
    last.op = "flatten" =>
        LET locs == Locations(last.obj)
        IN /\ Len(last.out) = Len(locs)
           /\ \A i \in 1..Len(locs) :
                /\ last.out[i].key = locs[i][Len(locs[i])]
                /\ last.out[i].type = TypeTag(ValueAt(last.obj, locs[i]))

\* an object-valued key with a descendant two levels down and a key after it
C12_Witness ==
    /\ last.op = "flatten"
    /\ \E i \in 1..Len(last.out) :
          /\ last.out[i].type = "object"
          /\ i + 3 <= Len(last.out)
          /\ last.out[i + 1].type = "object"
          /\ Len(Locations(last.obj)[i + 2]) = Len(Locations(last.obj)[i]) + 2
          /\ \E j \in (i + 3)..Len(last.out) :
                Len(Locations(last.obj)[j]) = Len(Locations(last.obj)[i])

C14_NonObjectEmpty ==
    (last.op = "flatten" /\ last.obj.t \in {"string", "number", "boolean", "null"})
        => last.out = <<>>

\* C15: flatten never enumerates an array: no descriptor describes an
\* element of an array or anything inside one, wherever the array is.
C15_ArraysNotEnumerated ==
    last.op = "flatten" =>
        \A i \in 1..Len(last.out) :
            \A n \in 0..(Len(Locations(last.obj)[i]) - 1) :
                ValueAt(last.obj, SubSeq(Locations(last.obj)[i], 1, n)).t # "array"

\* enum DataType
DataType == {"string", "number", "boolean", "object", "array", "null", "function"}

\* C16: the type of every descriptor is a member of DataType, and
\* isExpandable is true exactly for the types object and array.
C16_TypesInDataType ==
    last.op = "flatten" =>
        \A i \in 1..Len(last.out) :
            /\ last.out[i].type \in DataType
            /\ last.out[i].isExpandable <=> last.out[i].type \in {"object", "array"}

\* the descriptor without what the catalog adds to it
Bare(o) ==
    [path |-> o.path, key |-> o.key, type |-> o.type, value |-> o.value,
     isExpandable |-> o.isExpandable]

\* flatten(node.data, node.name) of the nodes from the i-th on, in order
RECURSIVE FlattenedFrom(_, _)
FlattenedFrom(ns, i) ==
    IF i > Len(ns) THEN <<>>
    ELSE flattenObjectToSchema(ns[i].data, ns[i].name) \o FlattenedFrom(ns, i + 1)

\* C17: the catalog is one descriptor per function (type function, path the
\* function's name), in the order of the registry, followed by
\* flatten(node.data, node.name) of each node in input order; its length is
\* the number of functions plus the lengths of the flatten results.
C17_CatalogLayout ==
    (last.op = "catalog" /\ ~last.raised) =>
        LET F == Len(FORMATTER_NAMES)
            vs == FlattenedFrom(last.nodes.items, 1)
        IN /\ Len(last.out) = F + Len(vs)
           /\ \A i \in 1..F :
                /\ last.out[i].type = "function"
                /\ last.out[i].path = <<FORMATTER_NAMES[i]>>
           /\ \A i \in 1..Len(vs) : Bare(last.out[F + i]) = vs[i]

\* a catalog of two nodes that both have descriptors
C17_Witness ==
    /\ last.op = "catalog"
    /\ ~last.raised
    /\ Len(last.nodes.items) >= 2
    /\ \A i \in 1..2 :
          flattenObjectToSchema(last.nodes.items[i].data, last.nodes.items[i].name) # <<>>
    /\ last.nodes.items[1].name # last.nodes.items[2].name

\* the last node of name k in the list
LastNamed(ns, k) == Max({j \in 1..Len(ns) : ns[j].name = k})

\* C18: the context binds every node name and every function name, a
\* function name to the function, any other name to the data of the last
\* node in input order that has the name.
C18_LaterBindingWins ==
    (last.op = "context" /\ ~last.raised) =>
        LET ns == last.nodes.items
            fs == {<<FORMATTER_NAMES[i]>> : i \in 1..Len(FORMATTER_NAMES)}
        IN /\ {last.out[i].k : i \in 1..Len(last.out)}
                  = {ns[i].name : i \in 1..Len(ns)} \cup fs
           /\ \A i, j \in 1..Len(last.out) : i # j => last.out[i].k # last.out[j].k
           /\ \A i \in 1..Len(last.out) :
                last.out[i].v =
                    IF last.out[i].k \in fs THEN Fn(last.out[i].k[1])
                    ELSE Held("node", LastNamed(ns, last.out[i].k),
                              ns[LastNamed(ns, last.out[i].k)].data)

\* a context built from two nodes of one name and a node named as a function
C18_Witness ==
    /\ last.op = "context"
    /\ ~last.raised
    /\ \E i, j \in 1..Len(last.nodes.items) :
          /\ i < j
          /\ last.nodes.items[i].name = last.nodes.items[j].name
          /\ last.nodes.items[i].data # last.nodes.items[j].data
    /\ \E i \in 1..Len(last.nodes.items) : last.nodes.items[i].name = <<"toUpper">>

\* C20: the public operations return to their caller without raising,
\* whatever they are given; stated for the two builders, which take the
\* nodes (null and malformed nodes included).
C20_NeverRaises ==
    last.op \in {"catalog", "context"} => ~last.raised

\* C19: no helper raises, whatever its arguments.
C19_HelpersNeverRaise ==
    last.op = "helper" => ~last.raised

\* the text a value is converted to when only undefined and null become
\* the empty text
TextOrEmpty(v) == IF v.t \in {"undefined", "null"} THEN <<>> ELSE ToText(v)

\* C21: toUpper(value) and toLower(value) return the text of value in upper
\* and in lower case, for every value; only undefined and null become the
\* empty text.
C21_CaseOfText ==
    (last.op = "helper" /\ last.name \in {"toUpper", "toLower"} /\ ~last.raised) =>
        LET s == TextOrEmpty(last.args[1])
        IN last.out = Str([i \in 1..Len(s) |->
                              IF last.name = "toUpper" THEN UpperChunk(s[i])
                              ELSE LowerChunk(s[i])])

\* the values new Date(value) takes a time from: a number and a boolean are
\* time values, null is the time 0, and undefined, NaN and the texts of the
\* data are no dates
Parseable(v) ==
    CASE v.t \in {"number", "boolean", "null"} -> TRUE
      [] v.t \in {"undefined", "nan"} -> FALSE
      [] v.t \in {"string", "object", "array"} ->
            (CASE ToText(v) \in {<<>>, <<"h", "i">>, <<"[object Object]">>} -> FALSE)

\* C22: formatDate(value, pattern) returns the text Invalid Date for every
\* value that cannot be parsed as a date, and for every value that can be
\* parsed it returns the pattern with its tokens replaced (a pattern
\* without tokens comes back as it is).
C22_FormatDate ==
    (last.op = "helper" /\ last.name = "formatDate" /\ ~last.raised) =>
        IF ~Parseable(last.args[1]) THEN last.out = Str(<<"Invalid Date">>)
        ELSE last.args[2].t = "string" => last.out = last.args[2]

\* C25: in the catalog every descriptor of a node whose type is object or
\* array has the description Object/Array Variable, and every other
\* descriptor of a node has Current Value: followed by the first 50
\* characters of its value.
C25_Descriptions ==
    (last.op = "catalog" /\ ~last.raised) =>
        \A i \in (Len(FORMATTER_NAMES) + 1)..Len(last.out) :
            IF last.out[i].type \in {"object", "array"}
            THEN last.out[i].description = <<"Object/Array Variable">>
            ELSE last.out[i].description =
                    <<"Current Value: ">>
                        \o Substring0(ToText(last.out[i].value), DescriptionLength)

\* the nodes of a store with one more node after them
WithNode(store, n) == [store EXCEPT !.nodes = @ \o <<n>>]

\* nodes that no snippet of Segments names: one whose name is an
\* identifier and one whose name is not
ExtraNodes == {[name |-> <<"M">>, data |-> Obj(<<P(<<"a">>, Num(1))>>)], HttpRequest}

\* C29: the result of a block depends only on the context entries its
\* snippet references: with one more node that no snippet names, evaluate
\* returns the same output and validate the same verdict.
C29_UnreferencedNodeIrrelevant ==
    /\ (last.op = "evaluate" /\ Len(last.before.nodes) = 1) =>
          \A n \in ExtraNodes :
              evaluateExpression(last.doc, WithNode(last.before, n)).out = last.out
    /\ (last.op = "validate" /\ Len(last.before.nodes) = 1) =>
          \A n \in ExtraNodes :
              validateSnippet(last.doc, buildEvaluationContext(fresh.nodes \o <<n>>),
                              WithNode(last.before, n)).isValid = last.isValid

\* the text a block yields for a value: '' for undefined, JSON for an
\* object, an array and null, String(value) otherwise
ExpectedText(v) ==
    IF v.t = "undefined" THEN <<>>
    ELSE IF TypeOf(v) = "object" THEN JSONText(v)
    ELSE ToText(v)

\* C26: every offered path resolves: for every node and every descriptor d
\* of flatten(node.data, node.name), the document "{{ " + d.path + " }}"
\* evaluated against the nodes yields the text of the value at d's location
\* in node.data (descriptor i describes location i), never a marker.
C26_PathsResolve ==
    (last.op = "catalog" /\ ~last.raised) =>
        \A n \in 1..Len(last.nodes.items) :
            \A i \in 1..Len(flattenObjectToSchema(last.nodes.items[n].data,
                                                  last.nodes.items[n].name)) :
                evaluateExpression(
                    Blk(flattenObjectToSchema(last.nodes.items[n].data,
                                              last.nodes.items[n].name)[i].path),
                    [nodes |-> last.nodes.items, host |-> HostGlobals]).out
                  = ExpectedText(ValueAt(last.nodes.items[n].data,
                                         Locations(last.nodes.items[n].data)[i]))

-----------------------------------------------------------------------------
(* App and ExpressionEditor: the text under edit, the hand-off of a sidebar *)
(* click through insertPath, and the autocomplete menu.  A text is here a   *)
(* sequence of single characters, and selectionStart, selectionEnd and      *)
(* triggerIndex are 0-based offsets as in the code.  The tooltip            *)
(* (activeToken, checkCursorContext) and the pixel coordinates are left     *)
(* out: nothing else reads them.                                            *)

MaxEdits == 3       \* input changes and sidebar clicks of one run

\* the text App starts with, cut to one character
InitialExpression == <<"x">>

\* the characters a key press types
TypedChars == {"{", "a", "x"}

\* the `variables` prop: the helpers first, the paths of the nodes after
\* them; the editor reads path and type only
variableOptions ==
    << [path |-> <<"f">>, type |-> "function"],
       [path |-> <<"a">>, type |-> "number"],
       [path |-> <<"b", ".", "a">>, type |-> "string"] >>

\* the leaves of the sidebar tree
SidebarPaths == {<<"a">>, <<"b", ".", "a">>}

\* the edits asked for so far
Edits == typed + Len(clicked)

Clamp(n, len) == IF n < 0 THEN 0 ELSE IF n > len THEN len ELSE n

\* s.substring(a, b): both ends clamped to the text, swapped when a > b
Substring(s, a, b) ==
    SubSeq(s, Min({Clamp(a, Len(s)), Clamp(b, Len(s))}) + 1,
              Max({Clamp(a, Len(s)), Clamp(b, Len(s))}))

\* s.substring(a)
SubstringFrom(s, a) == Substring(s, a, Len(s))

\* the characters of the texts above that [a-zA-Z0-9_\.] matches
QueryChars == {"a", "b", "f", "x", "."}

LookbackLength == 50

\* the offsets i of lookback at which /\{\{\s*([a-zA-Z0-9_\.]*)$/ matches
TriggerStarts(lookback) ==
    {i \in 0..(Len(lookback) - 2) :
        /\ lookback[i + 1] = "{"
        /\ lookback[i + 2] = "{"
        /\ \E j \in (i + 2)..Len(lookback) :
              /\ \A k \in (i + 3)..j : lookback[k] \in WhiteSpace
              /\ \A k \in (j + 1)..Len(lookback) : lookback[k] \in QueryChars}

\* the end of the white space after the braces of a match at i
QueryStart(lookback, i) ==
    CHOOSE j \in (i + 2)..Len(lookback) :
        /\ \A k \in (i + 3)..j : lookback[k] \in WhiteSpace
        /\ \A k \in (j + 1)..Len(lookback) : lookback[k] \in QueryChars

\* lookback.match(...): the leftmost match, its index and its group 1
TriggerMatch(lookback) ==
    IF TriggerStarts(lookback) = {} THEN [found |-> FALSE]
    ELSE [found |-> TRUE,
          index |-> Min(TriggerStarts(lookback)),
          group |-> SubSeq(lookback,
                           QueryStart(lookback, Min(TriggerStarts(lookback))) + 1,
                           Len(lookback))]

\* toLowerCase on the characters above
LowerCase(s) == s

\* s.includes(q)
Includes(s, q) == \E i \in 1..(Len(s) - Len(q) + 1) : SubSeq(s, i, i + Len(q) - 1) = q

\* variables.filter(v => v.path.toLowerCase().includes(typedQuery.toLowerCase()))
FilterOptions(typedQuery) ==
    SelectSeq(variableOptions,
              LAMBDA v : Includes(LowerCase(v.path), LowerCase(typedQuery)))
\* the markers around the path without the spaces
TokenWithoutSpaces(path) == OPEN \o path \o CLOSE

\* the two texts the editor inserts
VariableToken(path) == OPEN \o <<" ">> \o path \o <<" ">> \o CLOSE
FunctionToken(path) == OPEN \o <<" ">> \o path \o <<"(", ")", " ">> \o CLOSE

\* cursorOffset of an accepted suggestion
CursorOffset(variable) ==
    IF variable.type = "function" THEN Len(FunctionToken(variable.path)) - 3
    ELSE Len(VariableToken(variable.path))

\* the index before prev without the wrap to the end
PrevIndexNoWrap(prev, length) == prev - 1

\* (prev + 1) % filteredOptions.length and (prev - 1 + length) % length
NextIndex(prev, length) == (prev + 1) % length
PrevIndex(prev, length) == (prev - 1 + length) % length

\* the new text reaches the textarea through its value prop: the selection
\* collapses at the end of the text when the text differs from what the
\* textarea holds
SelectionAfterSet(newValue, old) ==
    IF newValue # doc THEN Len(newValue) ELSE old

InitEditor ==
    /\ nodes = <<>>
    /\ host = <<>>
    /\ nsegs = 0
    /\ fresh = [nodes |-> <<>>, host |-> <<>>]
    /\ doc = InitialExpression
    /\ last = None
    /\ EditorIdle

\* handleInputChange after the browser has applied an edit: newVal is the
\* textarea's text and cursor its selectionStart
handleInputChange(newVal, cursor) ==
    /\ Edits < MaxEdits
    /\ typed' = typed + 1
    /\ doc' = newVal
    /\ selectionStart' = cursor
    /\ selectionEnd' = cursor
    /\ LET from == Max({0, cursor - LookbackLength})
           match == TriggerMatch(Substring(newVal, from, cursor))
       IN IF match.found
          THEN /\ triggerIndex' = from + match.index
               /\ query' = match.group
               /\ filteredOptions' = FilterOptions(match.group)
               /\ selectedIndex' = 0
               /\ showMenu' = (Len(FilterOptions(match.group)) > 0)
          ELSE /\ showMenu' = FALSE
               /\ UNCHANGED <<triggerIndex, query, filteredOptions, selectedIndex>>
    /\ last' = None
    /\ UNCHANGED <<insertPath, effectDeps, frames, clicked, inserted>>
    /\ UNCHANGED <<nodes, host, nsegs, fresh>>

\* a character typed over the selection
TypeChar(c) ==
    handleInputChange(Substring(doc, 0, selectionStart) \o <<c>> \o SubstringFrom(doc, selectionEnd),
                      selectionStart + 1)

\* Backspace: the selection goes, or the character before the caret
Backspace ==
    /\ selectionEnd > 0
    /\ IF selectionStart # selectionEnd
       THEN handleInputChange(Substring(doc, 0, selectionStart) \o SubstringFrom(doc, selectionEnd),
                              selectionStart)
       ELSE handleInputChange(Substring(doc, 0, selectionStart - 1) \o SubstringFrom(doc, selectionEnd),
                              selectionStart - 1)

\* insertVariable(variable), via the key or the menu item that accepted it
insertVariable(variable, via) ==
    LET beforeTrigger == Substring(doc, 0, triggerIndex)
        afterCursor == SubstringFrom(doc, selectionEnd)
        insertion == IF variable.type = "function" THEN FunctionToken(variable.path)
                     ELSE VariableToken(variable.path)
        newValue == beforeTrigger \o insertion \o afterCursor
        record == [op |-> "insert", via |-> via, variable |-> variable, before |-> doc,
                   start |-> triggerIndex, end |-> selectionEnd, after |-> newValue]
    IN /\ doc' = newValue
       /\ showMenu' = FALSE
       /\ frames' = Append(frames, Len(beforeTrigger) + CursorOffset(variable))
       /\ selectionStart' = SelectionAfterSet(newValue, selectionStart)
       /\ selectionEnd' = SelectionAfterSet(newValue, selectionEnd)
       /\ last' = record
       /\ UNCHANGED <<insertPath, effectDeps, query, selectedIndex, triggerIndex,
                      filteredOptions, typed, clicked, inserted>>
       /\ UNCHANGED <<nodes, host, nsegs, fresh>>

KeyNames == {"ArrowDown", "ArrowUp", "Enter", "Tab", "Escape", "Home", "End"}

\* what the browser does with a key the handler does not prevent
DefaultAction(key) ==
    /\ key \in {"Home", "End", "ArrowUp", "ArrowDown"}
    /\ selectionStart' = IF key \in {"Home", "ArrowUp"} THEN 0 ELSE Len(doc)
    /\ selectionEnd' = selectionStart'
    /\ last' = None
    /\ UNCHANGED <<doc, insertPath, effectDeps, showMenu, query, selectedIndex, triggerIndex,
                   filteredOptions, frames, typed, clicked, inserted>>
    /\ UNCHANGED <<nodes, host, nsegs, fresh>>

\* handleKeyDown, followed by the browser's action for a key it lets through
handleKeyDown(key) ==
    IF showMenu /\ key \in {"ArrowDown", "ArrowUp"}
    THEN /\ selectedIndex' = IF key = "ArrowDown"
                             THEN NextIndex(selectedIndex, Len(filteredOptions))
                             ELSE PrevIndex(selectedIndex, Len(filteredOptions))
         /\ last' = None
         /\ UNCHANGED <<doc, insertPath, effectDeps, selectionStart, selectionEnd, showMenu,
                        query, triggerIndex, filteredOptions, frames, typed, clicked,
                        inserted>>
         /\ UNCHANGED <<nodes, host, nsegs, fresh>>
    ELSE IF showMenu /\ key \in {"Enter", "Tab"}
    THEN /\ selectedIndex + 1 \in DOMAIN filteredOptions
         /\ insertVariable(filteredOptions[selectedIndex + 1], key)
    ELSE IF showMenu /\ key = "Escape"
    THEN /\ showMenu' = FALSE
         /\ last' = None
         /\ UNCHANGED <<doc, insertPath, effectDeps, selectionStart, selectionEnd, query,
                        selectedIndex, triggerIndex, filteredOptions, frames, typed, clicked,
                        inserted>>
         /\ UNCHANGED <<nodes, host, nsegs, fresh>>
    ELSE DefaultAction(key)

\* handleClick: a click into the textarea, which puts the caret at p
handleClick(p) ==
    /\ showMenu' = FALSE
    /\ selectionStart' = p
    /\ selectionEnd' = p
    /\ last' = None
    /\ UNCHANGED <<doc, insertPath, effectDeps, query, selectedIndex, triggerIndex,
                   filteredOptions, frames, typed, clicked, inserted>>
    /\ UNCHANGED <<nodes, host, nsegs, fresh>>

\* handleScroll with the menu shown
handleScroll ==
    /\ showMenu
    /\ showMenu' = FALSE
    /\ last' = None
    /\ UNCHANGED <<doc, insertPath, effectDeps, selectionStart, selectionEnd, query,
                   selectedIndex, triggerIndex, filteredOptions, frames, typed, clicked,
                   inserted>>
    /\ UNCHANGED <<nodes, host, nsegs, fresh>>

\* onMouseEnter of the menu item idx
MenuItemEnter(idx) ==
    /\ showMenu
    /\ idx + 1 \in DOMAIN filteredOptions
    /\ selectedIndex' = idx
    /\ last' = None
    /\ UNCHANGED <<doc, insertPath, effectDeps, selectionStart, selectionEnd, showMenu, query,
                   triggerIndex, filteredOptions, frames, typed, clicked, inserted>>
    /\ UNCHANGED <<nodes, host, nsegs, fresh>>

\* onClick of the menu item idx
MenuItemClick(idx) ==
    /\ showMenu
    /\ idx + 1 \in DOMAIN filteredOptions
    /\ insertVariable(filteredOptions[idx + 1], "click")

\* handleVariableInsert(path): a click on a leaf of the sidebar
handleVariableInsert(path) ==
    /\ Edits < MaxEdits
    /\ insertPath' = Str(path)
    /\ clicked' = Append(clicked, path)
    /\ last' = None
    /\ UNCHANGED <<doc, effectDeps, selectionStart, selectionEnd, showMenu, query,
                   selectedIndex, triggerIndex, filteredOptions, frames, typed, inserted>>
    /\ UNCHANGED <<nodes, host, nsegs, fresh>>

\* the effect on [insertPath]: it runs after a render in which insertPath
\* differs from the one of the render before; onInsertComplete() resets
\* insertPath, and the render that follows is the last one the effect has
\* seen
InsertPathEffect ==
    /\ insertPath # effectDeps
    /\ effectDeps' = IF Truthy(insertPath) THEN Null ELSE insertPath
    /\ IF Truthy(insertPath)
       THEN LET variableToken == VariableToken(insertPath.s)
                newValue == Substring(doc, 0, selectionStart) \o variableToken
                                \o SubstringFrom(doc, selectionEnd)
                record == [op |-> "insert", via |-> "sidebar",
                           variable |-> [path |-> insertPath.s, type |-> "path"],
                           before |-> doc, start |-> selectionStart, end |-> selectionEnd,
                           after |-> newValue]
            IN /\ doc' = newValue
               /\ frames' = Append(frames, selectionStart + Len(variableToken))
               /\ insertPath' = Null
               /\ inserted' = Append(inserted, insertPath.s)
               /\ selectionStart' = SelectionAfterSet(newValue, selectionStart)
               /\ selectionEnd' = SelectionAfterSet(newValue, selectionEnd)
               /\ last' = record
       ELSE UNCHANGED <<doc, frames, insertPath, inserted, selectionStart, selectionEnd, last>>
    /\ UNCHANGED <<showMenu, query, selectedIndex, triggerIndex, filteredOptions, typed,
                   clicked>>
    /\ UNCHANGED <<nodes, host, nsegs, fresh>>

\* the oldest callback handed to requestAnimationFrame runs
AnimationFrame ==
    /\ frames # <<>>
    /\ selectionStart' = Clamp(Head(frames), Len(doc))
    /\ selectionEnd' = Clamp(Head(frames), Len(doc))
    /\ frames' = Tail(frames)
    /\ last' = IF last.op = "insert" /\ Len(frames) = 1
                THEN [last EXCEPT !.op = "placed"] ELSE None
    /\ UNCHANGED <<doc, insertPath, effectDeps, showMenu, query, selectedIndex, triggerIndex,
                   filteredOptions, typed, clicked, inserted>>
    /\ UNCHANGED <<nodes, host, nsegs, fresh>>

NextEditor ==
    \/ \E c \in TypedChars : TypeChar(c)
    \/ Backspace
    \/ \E key \in KeyNames : handleKeyDown(key)
    \/ \E p \in {0, Len(doc)} : handleClick(p)
    \/ handleScroll
    \/ \E idx \in 0..(Len(variableOptions) - 1) : MenuItemEnter(idx)
    \/ \E idx \in 0..(Len(variableOptions) - 1) : MenuItemClick(idx)
    \/ \E path \in SidebarPaths : handleVariableInsert(path)
    \/ InsertPathEffect
    \/ AnimationFrame

SpecEditor == InitEditor /\ [][NextEditor]_vars

\* the effect runs after the render that follows a change of insertPath,
\* and the browser runs every frame it was asked for
SpecEditorLive ==
    SpecEditor /\ WF_vars(InsertPathEffect) /\ WF_vars(AnimationFrame)

-----------------------------------------------------------------------------
(* Claims about the editor.  An insertion leaves in `last` the text before  *)
(* it, the offsets start and end between which the old text was dropped     *)
(* (the selection for a sidebar click, triggerIndex and selectionEnd for an *)
(* accepted suggestion) and the text after it.                              *)

MenuVias == {"Enter", "Tab", "click"}

\* the part of the new text that stands between what was kept of the old
InsertedText(r) ==
    SubSeq(r.after, Len(Substring(r.before, 0, r.start)) + 1,
           Len(r.after) - Len(SubstringFrom(r.before, r.end)))

C24_CaretBetweenParentheses ==
    (last.op = "placed" /\ last.variable.type = "function") =>
        /\ InsertedText(last) =
              <<"{", "{", " ">> \o last.variable.path \o <<"(", ")", " ", "}", "}">>
        /\ selectionStart = selectionEnd
        /\ selectionStart >= 1
        /\ selectionStart + 1 <= Len(doc)
        /\ doc[selectionStart] = "("
        /\ doc[selectionStart + 1] = ")"

\* C27: accepting a suggestion yields the previous text with exactly the
\* span from the triggering {{ up to the caret replaced by the insertion:
\* what stands before the {{ and what stands after the caret is kept once.
C27_OnlyTriggerSpanReplaced ==
    (last.op = "insert" /\ last.via \in MenuVias) =>
        \E k \in 0..(last.end - 2) :
            /\ SubSeq(last.before, k + 1, k + 2) = OPEN
            /\ last.after =
                  SubSeq(last.before, 1, k)
                    \o (IF last.variable.type = "function"
                        THEN FunctionToken(last.variable.path)
                        ELSE VariableToken(last.variable.path))
                    \o SubSeq(last.before, last.end + 1, Len(last.before))

C30_SelectionInRange ==
    showMenu =>
        /\ Len(filteredOptions) > 0
        /\ 0 <= selectedIndex
        /\ selectedIndex < Len(filteredOptions)

\* the menu shown with the last of several options selected
C30_Witness ==
    /\ showMenu
    /\ Len(filteredOptions) > 1
    /\ selectedIndex = Len(filteredOptions) - 1

====
